---- MODULE Spec2Model ----
(***************************************************************************)
(* Model of the relation_server identity graph: the crawl orchestrator     *)
(* (upstream::fetch_all / fetch_one), the Identity vertex upsert           *)
(* (Identity::create_or_update) and the Hold / Resolve edge connect        *)
(* operations, over an abstract document store.                            *)
(***************************************************************************)
EXTENDS Integers, Sequences, FiniteSets, TLC

\* ------------------------------------------------------------------------
\* Bounds of the model
\* ------------------------------------------------------------------------
\* Most Targets the Fetchers return, all together, for one fetch_one call.
MaxFetched == 2
\* Cap on the number of fetch_one calls of one crawl that the model follows.
MaxRounds == 12
\* Number of fetch_one calls, from the first on, whose six results the model
\* keeps in view.
MaxJoined == 2
\* Number of create_or_update / connect calls the callers make in one run.
MaxCalls == 2
\* Last instant of the clock; the clock stays there once it is reached.
MaxClock == 2
\* Largest updated_at, in seconds, of the records is_outdated is asked about.
MaxStamp == 2
\* How many seconds before and after updated_at + ttl is_outdated is asked.
MaxSkew == 2

\* Largest depth the neighbor traversal is asked for.
MaxDepth == 2
\* Most Proof edges the traversed graph holds.
MaxEdges == 3

\* Option<T>: None is the empty tuple, Some(v) the one-element tuple.
None == <<>>
Some(v) == <<v>>
\* Option::or
or(a, b) == IF a # None THEN a ELSE b

\* Result<TargetProcessedList, Error> of a fetch call.
Ok(list) == <<"Ok", list>>
Err(e) == <<"Err", <<e>>>>

\* The variants of error::Error the Fetchers return.
Error_General == <<"General">>
Error_NoResult == <<"NoResult">>
Error_JSONParseError == <<"JSONParseError">>
Error_HttpClientError == <<"HttpClientError">>
Error_ArangoDBError == <<"ArangoDBError">>

\* ------------------------------------------------------------------------
\* upstream: Target, Fetcher
\* ------------------------------------------------------------------------
\* Target::Identity(platform, identity) and
\* Target::NFT(chain, category, contract_address, nft_id); equality is the
\* derived structural PartialEq.
TargetIdentity(platform, identity) == <<"Identity", platform, identity>>
TargetNFT(chain, category, address, nft_id) ==
    <<"NFT", chain, category, address, nft_id>>

Targets ==
    { TargetIdentity("twitter", "alice"),
      TargetIdentity("ethereum", "0xabc"),
      TargetNFT("ethereum", "ENS", "0xens", "alice.eth") }

\* Target::in_platform_supported
in_platform_supported(target, platforms) ==
    IF target[1] = "NFT" THEN FALSE ELSE target[2] \in platforms

\* The six Fetchers of fetch_one, in the order of its join_all.
Fetchers ==
    <<"Aggregation", "SybilList", "Keybase", "ProofClient", "Rss3", "Knn3">>

\* Keybase::can_fetch
Keybase_can_fetch(target) ==
    in_platform_supported(target, {"twitter", "github", "reddit"})

\* Rss3::can_fetch
Rss3_can_fetch(target) == in_platform_supported(target, {"ethereum"})

\* Knn3::can_fetch (the fetcher is disabled)
Knn3_can_fetch(target) == FALSE

\* Aggregation, SybilList and ProofClient may answer for any Target.
Other_can_fetch(target) == TRUE

\* Fetcher::can_fetch of each adapter.
can_fetch(fetcher, target) ==
    CASE fetcher = "Keybase" -> Keybase_can_fetch(target)
      [] fetcher = "Rss3" -> Rss3_can_fetch(target)
      [] fetcher = "Knn3" -> Knn3_can_fetch(target)
      [] OTHER -> Other_can_fetch(target)

RECURSIVE SeqsUpTo(_, _)
SeqsUpTo(S, n) ==
    IF n = 0 THEN { <<>> }
    ELSE LET shorter == SeqsUpTo(S, n - 1)
         IN  shorter \cup { Append(s, x) : s \in shorter, x \in S }

\* How the upstream service answers the request of one fetch.
UpstreamFailures == {"network_failure", "non_success", "malformed", "empty"}
Responses == UpstreamFailures \cup {"ok"}

\* The Targets a Fetcher builds from the items of an answer: Keybase builds
\* Target::Identity from proofs, Rss3 builds Target::NFT from notes.
ItemTargets(fetcher) ==
    CASE fetcher = "Keybase" -> { t \in Targets : t[1] = "Identity" }
      [] fetcher = "Rss3" -> { t \in Targets : t[1] = "NFT" }
      [] OTHER -> Targets

\* What one fetch meets: the answer of the upstream, the items of an "ok"
\* answer given as the Targets they stand for, and whether the store
\* accepts the calls of the Fetcher or fails them all.
UpstreamAnswers(fetcher, budget) ==
    { [response |-> r, items |-> <<>>, store |-> "ok"] :
        r \in UpstreamFailures }
    \cup { [response |-> "ok", items |-> l, store |-> st] :
             l \in SeqsUpTo(ItemTargets(fetcher), budget),
             st \in {"ok", "fatal"} }

\* keybase::fetch_connections_by_platform_identity
fetch_connections_by_platform_identity(up) ==
    CASE up.response = "network_failure" -> Err(Error_HttpClientError)
      [] up.response = "non_success" -> Err(Error_General)
      [] up.response = "malformed" -> Err(Error_JSONParseError)
      [] up.response = "empty" -> Err(Error_NoResult)
      [] OTHER -> IF up.store = "fatal" THEN Err(Error_ArangoDBError)
                  ELSE Ok(up.items)

\* Keybase::fetch
Keybase_fetch(target, up) ==
    IF ~Keybase_can_fetch(target) THEN Ok(<<>>)
    ELSE fetch_connections_by_platform_identity(up)

\* rss3::fetch_nfts_by_account: the result of a save_item that failed is
\* dropped by unwrap_or(vec![]).
fetch_nfts_by_account(up) ==
    CASE up.response = "network_failure" -> Err(Error_HttpClientError)
      [] up.response = "non_success" -> Err(Error_General)
      [] up.response = "malformed" -> Err(Error_JSONParseError)
      [] up.response = "empty" -> Err(Error_General)
      [] OTHER -> IF up.store = "fatal" THEN Ok(<<>>) ELSE Ok(up.items)

\* Rss3::fetch
Rss3_fetch(target, up) ==
    IF ~Rss3_can_fetch(target) THEN Ok(<<>>)
    ELSE fetch_nfts_by_account(up)

\* knn3::fetch_ens_by_eth_wallet and fetch_eth_wallet_by_ens: a failed
\* query and an empty addrs are answered with Ok(vec![]).
fetch_ens_by_eth_wallet(up) ==
    IF up.response \in UpstreamFailures THEN Ok(<<>>)
    ELSE IF up.store = "fatal" THEN Err(Error_ArangoDBError)
    ELSE Ok(up.items)

\* Knn3::fetch
Knn3_fetch(target, up) ==
    IF ~Knn3_can_fetch(target) THEN Ok(<<>>)
    ELSE fetch_ens_by_eth_wallet(up)

\* Fetcher::fetch of the adapters Keybase, Rss3 and Knn3.
fetch(fetcher, target, up) ==
    CASE fetcher = "Keybase" -> Keybase_fetch(target, up)
      [] fetcher = "Rss3" -> Rss3_fetch(target, up)
      [] fetcher = "Knn3" -> Knn3_fetch(target, up)

\* The errors a Fetcher outside this source tree may return: one raised by
\* its upstream, or one raised by the store.
OtherErrors == {Error_General, Error_ArangoDBError}

\* What one Fetcher call can return for a Target when it may return at most
\* budget Targets: an Err, or a list of Targets.  A Fetcher that cannot
\* fetch the Target returns Ok(vec![]).
FetchOutcomes(fetcher, target, budget) ==
    IF fetcher \in {"Keybase", "Rss3", "Knn3"}
    THEN { fetch(fetcher, target, up) : up \in UpstreamAnswers(fetcher, budget) }
    ELSE IF can_fetch(fetcher, target)
    THEN { Err(e) : e \in OtherErrors }
         \cup { Ok(l) : l \in SeqsUpTo(Targets, budget) }
    ELSE { Ok(<<>>) }

\* res.unwrap_or(vec![])
unwrap_or_empty(res) == IF res[1] = "Err" THEN <<>> ELSE res[2]

\* The results of the fetch calls of the Fetchers i.. of one fetch_one, in
\* the order of the Fetchers.
RECURSIVE FetchResultsFrom(_, _, _)
FetchResultsFrom(i, target, budget) ==
    IF i > Len(Fetchers) THEN { <<>> }
    ELSE UNION { { <<res>> \o rest :
                     rest \in FetchResultsFrom(
                         i + 1, target, budget - Len(unwrap_or_empty(res))) } :
                 res \in FetchOutcomes(Fetchers[i], target, budget) }

\* The results of the six fetch calls of one fetch_one (join_all keeps the
\* order of the Fetchers).
FetchResults(target) == FetchResultsFrom(1, target, MaxFetched)

\* .into_iter().flat_map(|res| res.unwrap_or(vec![])).collect()
RECURSIVE flat_map(_, _)
flat_map(results, i) ==
    IF i > Len(Fetchers) THEN <<>>
    ELSE unwrap_or_empty(results[i]) \o flat_map(results, i + 1)

\* The first Err of the results, or None.
RECURSIVE first_err(_, _)
first_err(results, i) ==
    IF i > Len(results) THEN None
    ELSE IF results[i][1] = "Err" THEN Some(results[i])
    ELSE first_err(results, i + 1)

\* a fetch_one that returns the first error of its Fetchers
fetch_one_try(results) ==
    IF first_err(results, 1) # None THEN first_err(results, 1)[1]
    ELSE Ok(flat_map(results, 1))

\* fetch_one: Ok of the concatenation, in Fetcher order, of what the
\* Fetchers returned; a failed Fetcher contributes nothing.
fetch_one(results) == Ok(flat_map(results, 1))

\* What the join_all of fetch_one can yield for each Target.
fetch_results == [target \in Targets |-> FetchResults(target)]

\* What fetch_one can return for each Target.
fetched_lists ==
    [target \in Targets |->
        { fetch_one(results) : results \in fetch_results[target] }]

\* a processed list in which no Target is ever found
contains_never(list, x) == FALSE

\* processed.contains(&f)
contains(list, x) == \E i \in 1..Len(list) : list[i] = x

\* a work list filled at the end the loop does not pop from
RECURSIVE push_fetched_front(_, _, _)
push_fetched_front(stack, done, fetched) ==
    IF fetched = <<>> THEN stack
    ELSE push_fetched_front(
            IF contains(done, Head(fetched)) THEN stack
            ELSE <<Head(fetched)>> \o stack,
            done, Tail(fetched))

\* fetched.into_iter().for_each(|f| if processed.contains(&f) {} else
\* { up_next.push(f) })
RECURSIVE push_fetched(_, _, _)
push_fetched(stack, done, fetched) ==
    IF fetched = <<>> THEN stack
    ELSE push_fetched(
            IF contains(done, Head(fetched)) THEN stack
            ELSE Append(stack, Head(fetched)),
            done, Tail(fetched))

\* a pop that reads the last Target and leaves it in the work list
last_kept(stack) == stack

\* What up_next.pop() leaves in the work list.
popped(stack) == SubSeq(stack, 1, Len(stack) - 1)

VARIABLES
    cpc,        \* fetch_all: "running" or "returned"
    up_next,    \* fetch_all: the work list (a Vec used as a stack)
    processed,  \* fetch_all: the Targets already explored
    explored,   \* the Targets passed to fetch_one, in call order
    joined,     \* what the join_all of the latest fetch_one yielded
    discovers,  \* per Target, what fetch_one returns for it when the
                \* upstreams answer the same at every call, or None
    now,        \* the clock read by naive_now()
    ncalls,     \* number of store calls started so far
    identities, \* the Identities collection: a set of documents
    ipc,        \* create_or_update, per caller: where the call stands
    iself,      \* create_or_update, per caller: the Identity it was called on
    ifound,     \* create_or_update, per caller: what the first lookup found
    idoc,       \* create_or_update, per caller: to_be_created / merged found
    iret,       \* create_or_update, per caller: the record returned
    ireturned,  \* per (platform, identity): the <<key, uuid, added_at>>
                \* of every record create_or_update has returned for it
    holds,      \* the Holds edge collection: a set of edge documents
    hpc,        \* Hold::connect, per caller: where the call stands
    hself,      \* Hold::connect, per caller: the Hold with its from and to
    hfound,     \* Hold::connect, per caller: what the lookup found
    hret,       \* Hold::connect, per caller: the edge returned
    resolves,   \* the Resolves edge collection: a set of edge documents
    rkeys,      \* number of keys the Resolves collection has handed out
    rpc,        \* Resolve::connect, per caller: where the call stands
    rself,      \* Resolve::connect, per caller: the Resolve with from and to
    rfound,     \* Resolve::connect, per caller: what the lookup found
    rret,       \* Resolve::connect, per caller: the edge returned
    opc,        \* is_outdated: "called" or "returned"
    okind,      \* is_outdated: the kind of record it is called on
    oupdated_at,\* is_outdated: the updated_at of that record, in seconds
    onow,       \* is_outdated: what naive_now() answers, in seconds
    oresult,    \* is_outdated: the value returned
    fpc,        \* Fetcher::fetch: "called" or "returned"
    ffetcher,   \* Fetcher::fetch: the adapter called
    ftarget,    \* Fetcher::fetch: the Target it is called on
    fupstream,  \* Fetcher::fetch: what the call meets upstream and in the store
    fresult,    \* Fetcher::fetch: the Result returned
    qpc,        \* IdentityQuery: "called", "awaiting", "answered", "panicked"
    qreq,       \* IdentityQuery: the request (which query, platforms, identity)
    qfound,     \* IdentityQuery: the records its first lookup found
    qnext,      \* IdentityQuery::identities: how many platforms it has taken
    qanswer,    \* IdentityQuery: the records answered
    crawls,     \* the fetch_all calls the request has started, in order
    contracts,  \* the Contracts collection: a set of documents
    proofs,     \* the Proofs edge collection: a set of edge documents
    kpc,        \* a single call: "called", "returned" or "panicked"
    kop,        \* a single call: the function called and its arguments
    kresult     \* a single call: the value returned

crawlVars == <<cpc, up_next, processed, explored, joined, discovers>>
clockVars == <<now, ncalls>>
vertexVars == <<identities, ipc, iself, ifound, idoc, iret, ireturned>>
identityVars == <<clockVars, vertexVars>>
holdVars == <<holds, hpc, hself, hfound, hret>>
resolveVars == <<resolves, rkeys, rpc, rself, rfound, rret>>
edgeVars == <<holdVars, resolveVars>>
outdatedVars == <<opc, okind, oupdated_at, onow, oresult>>
fetchVars == <<fpc, ffetcher, ftarget, fupstream, fresult>>
queryVars == <<qpc, qreq, qfound, qnext, qanswer, crawls>>
callerVars == <<ipc, iself, ifound, idoc, iret, ireturned>>
assetVars == <<contracts, proofs>>
opVars == <<kpc, kop, kresult>>
laterVars == <<assetVars, opVars>>
serviceVars == <<outdatedVars, fetchVars, queryVars, laterVars>>

vars == <<cpc, up_next, processed, explored, joined, discovers,
          now, ncalls, identities, ipc, iself, ifound, idoc, iret, ireturned,
          holds, hpc, hself, hfound, hret,
          resolves, rkeys, rpc, rself, rfound, rret,
          opc, okind, oupdated_at, onow, oresult,
          fpc, ffetcher, ftarget, fupstream, fresult,
          qpc, qreq, qfound, qnext, qanswer, crawls,
          contracts, proofs, kpc, kop, kresult>>

\* The callers of the store operations.
Procs == {1, 2}

\* The (platform, identity) pairs the callers upsert.
IdentityKeys == { <<"twitter", "alice">>, <<"ethereum", "0xabc">> }

CrawlIdle ==
    /\ cpc = "idle"
    /\ up_next = <<>>
    /\ processed = <<>>
    /\ explored = <<>>
    /\ joined = None
    /\ discovers = None

IdentityIdle ==
    /\ now = 0
    /\ ncalls = 0
    /\ identities = {}
    /\ ipc = [p \in Procs |-> "idle"]
    /\ iself = [p \in Procs |-> None]
    /\ ifound = [p \in Procs |-> None]
    /\ idoc = [p \in Procs |-> None]
    /\ iret = [p \in Procs |-> None]
    /\ ireturned = [k \in IdentityKeys |-> {}]

HoldIdle ==
    /\ holds = {}
    /\ hpc = [p \in Procs |-> "idle"]
    /\ hself = [p \in Procs |-> None]
    /\ hfound = [p \in Procs |-> None]
    /\ hret = [p \in Procs |-> None]

ResolveIdle ==
    /\ resolves = {}
    /\ rkeys = 0
    /\ rpc = [p \in Procs |-> "idle"]
    /\ rself = [p \in Procs |-> None]
    /\ rfound = [p \in Procs |-> None]
    /\ rret = [p \in Procs |-> None]

OutdatedIdle ==
    /\ opc = "idle"
    /\ okind = "Identity"
    /\ oupdated_at = 0
    /\ onow = 0
    /\ oresult = FALSE

FetchIdle ==
    /\ fpc = "idle"
    /\ ffetcher = "Knn3"
    /\ ftarget = None
    /\ fupstream = None
    /\ fresult = None

QueryIdle ==
    /\ qpc = "idle"
    /\ qreq = None
    /\ qfound = {}
    /\ qnext = 0
    /\ qanswer = {}
    /\ crawls = <<>>

AssetIdle ==
    /\ contracts = {}
    /\ proofs = {}

OpIdle ==
    /\ kpc = "idle"
    /\ kop = None
    /\ kresult = None

LaterIdle == AssetIdle /\ OpIdle

GraphIdle == IdentityIdle /\ HoldIdle /\ ResolveIdle

ServiceIdle == OutdatedIdle /\ FetchIdle /\ QueryIdle /\ LaterIdle

InitCrawl ==
    /\ cpc = "running"
    /\ \E initial_target \in Targets : up_next = <<initial_target>>
    /\ processed = <<>>
    /\ explored = <<>>
    /\ joined = None
    /\ discovers = None
    /\ GraphIdle
    /\ ServiceIdle

\* a loop body that looks the fetched Targets up in processed before the
\* Target of the round is in it
FetchAllStepLate(target, res) ==
    /\ explored' = Append(explored, target)
    /\ IF res[1] = "Err"
       THEN /\ cpc' = "failed"
            /\ processed' = processed
            /\ up_next' = popped(up_next)
       ELSE /\ cpc' = "running"
            /\ processed' = Append(processed, target)
            /\ up_next' = push_fetched(popped(up_next), processed, res[2])

\* The body of the while loop of fetch_all once fetch_one(&target) has
\* answered res: an Err leaves fetch_all through the ? operator, an Ok
\* records the Target as processed and pushes what was fetched.
FetchAllStep(target, res) ==
    /\ explored' = Append(explored, target)
    /\ IF res[1] = "Err"
       THEN /\ cpc' = "failed"
            /\ processed' = processed
            /\ up_next' = popped(up_next)
       ELSE LET done == Append(processed, target)
            IN  /\ cpc' = "running"
                /\ processed' = done
                /\ up_next' = push_fetched(popped(up_next), done, res[2])

\* One iteration of the while loop of fetch_all.
FetchAllIter ==
    /\ cpc = "running"
    /\ Len(up_next) > 0
    /\ Len(explored) < MaxRounds
    /\ LET target == up_next[Len(up_next)]
       IN  \E res \in fetched_lists[target] : FetchAllStep(target, res)
    /\ UNCHANGED <<joined, discovers>>
    /\ UNCHANGED <<identityVars, edgeVars, serviceVars>>

\* The loop finds a Target in the work list and calls fetch_one on it: the
\* six fetches are in flight.
FetchOneCall ==
    /\ cpc = "running"
    /\ Len(up_next) > 0
    /\ Len(explored) < MaxRounds
    /\ cpc' = "fetching"
    /\ joined' = None
    /\ UNCHANGED <<up_next, processed, explored, discovers>>
    /\ UNCHANGED <<identityVars, edgeVars, serviceVars>>

\* The join_all of the fetch_one in flight completes, fetch_one returns and
\* the rest of the loop body runs.  The six results are kept in view for
\* the first MaxJoined calls.
FetchOneJoined ==
    /\ cpc = "fetching"
    /\ Len(explored) < MaxJoined
    /\ LET target == up_next[Len(up_next)]
       IN  \E results \in fetch_results[target] :
             /\ joined' = Some(results)
             /\ FetchAllStep(target, fetch_one(results))
    /\ UNCHANGED discovers
    /\ UNCHANGED <<identityVars, edgeVars, serviceVars>>

\* The same step of a later call, followed by what fetch_one returns.
FetchOneReturned ==
    /\ cpc = "fetching"
    /\ Len(explored) >= MaxJoined
    /\ LET target == up_next[Len(up_next)]
       IN  \E res \in fetched_lists[target] : FetchAllStep(target, res)
    /\ UNCHANGED <<joined, discovers>>
    /\ UNCHANGED <<identityVars, edgeVars, serviceVars>>

\* a loop left while one Target is still waiting
FetchAllReturnEarly ==
    /\ cpc = "running"
    /\ Len(up_next) <= 1
    /\ cpc' = "returned"
    /\ UNCHANGED <<up_next, processed, explored, joined, discovers>>
    /\ UNCHANGED <<identityVars, edgeVars, serviceVars>>

\* The loop condition fails: fetch_all returns Ok(()).
FetchAllReturn ==
    /\ cpc = "running"
    /\ Len(up_next) = 0
    /\ cpc' = "returned"
    /\ UNCHANGED <<up_next, processed, explored, joined, discovers>>
    /\ UNCHANGED <<identityVars, edgeVars, serviceVars>>

NextCrawl == FetchAllIter \/ FetchAllReturn

SpecCrawl == InitCrawl /\ [][NextCrawl]_vars

\* fetch_all is called while every upstream answers the same whenever it
\* is asked about the same Target.
InitCrawlSteady ==
    /\ cpc = "running"
    /\ \E initial_target \in Targets : up_next = <<initial_target>>
    /\ processed = <<>>
    /\ explored = <<>>
    /\ joined = None
    /\ discovers \in [Targets -> SeqsUpTo(Targets, MaxFetched)]
    /\ \A t \in Targets : Ok(discovers[t]) \in fetched_lists[t]
    /\ GraphIdle
    /\ ServiceIdle

\* One iteration of the while loop of fetch_all with these upstreams.
FetchAllIterSteady ==
    /\ cpc = "running"
    /\ Len(up_next) > 0
    /\ Len(explored) < MaxRounds
    /\ LET target == up_next[Len(up_next)]
       IN  FetchAllStep(target, Ok(discovers[target]))
    /\ UNCHANGED <<joined, discovers>>
    /\ UNCHANGED <<identityVars, edgeVars, serviceVars>>

NextCrawlSteady == FetchAllIterSteady \/ FetchAllReturn

SpecCrawlSteady == InitCrawlSteady /\ [][NextCrawlSteady]_vars

NextCrawlJoined ==
    FetchOneCall \/ FetchOneJoined \/ FetchOneReturned \/ FetchAllReturn

SpecCrawlJoined == InitCrawl /\ [][NextCrawlJoined]_vars

\* How many times fetch_one calls the fetch of a Fetcher: the vec! given
\* to join_all holds one fetch(target) future of each.
invoked(fetcher, target) == 1

\* a join that is over as soon as one future is
any_ready(futures) == \E i \in 1..Len(futures) : futures[i] # None

\* join_all(..).await: every future has its output.
all_ready(futures) == \A i \in 1..Len(futures) : futures[i] # None

\* The outputs join_all yields, in the order of the futures.
outputs(futures) ==
    [ i \in 1..Len(futures) |->
        IF futures[i] = None THEN Ok(<<>>) ELSE futures[i][1] ]

\* The number of Targets the futures have returned so far.
RECURSIVE returned_so_far(_, _)
returned_so_far(futures, i) ==
    IF i > Len(futures) THEN 0
    ELSE Len(unwrap_or_empty(outputs(futures)[i]))
           + returned_so_far(futures, i + 1)

\* The first fetch_one of the crawl is called: the six fetch futures are
\* created and handed to join_all.
FanOutCall ==
    /\ cpc = "running"
    /\ Len(up_next) > 0
    /\ explored = <<>>
    /\ cpc' = "fetching"
    /\ joined' = Some([ i \in 1..Len(Fetchers) |-> None ])
    /\ kop' = Some([ i \in 1..Len(Fetchers) |->
                       invoked(Fetchers[i], up_next[Len(up_next)]) ])
    /\ UNCHANGED <<up_next, processed, explored, discovers>>
    /\ UNCHANGED <<kpc, kresult, assetVars>>
    /\ UNCHANGED <<identityVars, edgeVars, outdatedVars, fetchVars, queryVars>>

\* The fetch of one Fetcher called by this fetch_one completes, in any
\* order with the others.
FetcherReturns(i) ==
    /\ cpc = "fetching"
    /\ joined # None
    /\ kop[1][i] > 0
    /\ joined[1][i] = None
    /\ \E res \in FetchOutcomes(
                     Fetchers[i], up_next[Len(up_next)],
                     MaxFetched - returned_so_far(joined[1], 1)) :
         joined' = Some([ joined[1] EXCEPT ![i] = Some(res) ])
    /\ UNCHANGED <<cpc, up_next, processed, explored, discovers>>
    /\ UNCHANGED <<opVars, assetVars>>
    /\ UNCHANGED <<identityVars, edgeVars, outdatedVars, fetchVars, queryVars>>

\* join_all completes, fetch_one returns the outputs flattened and the rest
\* of the loop body runs.
FanOutJoined ==
    /\ cpc = "fetching"
    /\ joined # None
    /\ all_ready(joined[1])
    /\ FetchAllStep(up_next[Len(up_next)], fetch_one(outputs(joined[1])))
    /\ joined' = None
    /\ UNCHANGED discovers
    /\ UNCHANGED <<opVars, assetVars>>
    /\ UNCHANGED <<identityVars, edgeVars, outdatedVars, fetchVars, queryVars>>

\* A crawl whose first fetch_one is followed Fetcher by Fetcher.
NextFanOut ==
    \/ FanOutCall
    \/ \E i \in 1..Len(Fetchers) : FetcherReturns(i)
    \/ FanOutJoined
    \/ FetchAllIter
    \/ FetchAllReturn

SpecFanOut == InitCrawl /\ [][NextFanOut]_vars

\* The runtime keeps polling the fetch_all future and every fetch returns.
FairSpecCrawl == SpecCrawl /\ WF_vars(NextCrawl)

\* ------------------------------------------------------------------------
\* graph::vertex::Identity
\* ------------------------------------------------------------------------
\* Which optional fields one incoming Identity carries.
FieldsPresent ==
    { {},
      {"display_name", "created_at"},
      {"profile_url", "avatar_url"},
      {"display_name", "profile_url", "avatar_url", "created_at"} }

\* The Identity values create_or_update is called on when n calls were made
\* before: its present fields carry values no earlier call has used.
IdentityInputs(n) ==
    { [ uuid |-> u, platform |-> k[1], identity |-> k[2],
        display_name |-> IF "display_name" \in f THEN Some(n) ELSE None,
        profile_url |-> IF "profile_url" \in f THEN Some(n) ELSE None,
        avatar_url |-> IF "avatar_url" \in f THEN Some(n) ELSE None,
        created_at |-> IF "created_at" \in f THEN Some(n) ELSE None ] :
      u \in { None, Some(<<"given", n>>) }, k \in IdentityKeys,
      f \in FieldsPresent }

\* Uuid::new_v4() of the n-th call.
new_v4(n) == <<"v4", n>>

\* naive_now(): the clock has not moved or has moved on by one instant.
ClockReads == { t \in {now, now + 1} : t <= MaxClock }

MinKey(docs) == CHOOSE d \in docs : \A e \in docs : d.key <= e.key

\* Identity::find_by_platform_identity
find_by_platform_identity(docs, platform, identity) ==
    LET query_result ==
            { d \in docs : d.platform = platform /\ d.identity = identity }
    IN  IF query_result = {} THEN None ELSE Some(MinKey(query_result))

\* a store without the unique index
NoUniqueIndex(docs, doc) == FALSE

\* The Identities collection has a unique index on (platform, identity):
\* a create whose pair is already stored is answered with Conflict.
UniqueIndexViolated(docs, doc) ==
    \E d \in docs : d.platform = doc.platform /\ d.identity = doc.identity

\* to_be_created: self with a uuid and both timestamps set.
to_be_created(self, n, t) ==
    [ uuid |-> or(self.uuid, Some(new_v4(n))), platform |-> self.platform,
      identity |-> self.identity, display_name |-> self.display_name,
      profile_url |-> self.profile_url, avatar_url |-> self.avatar_url,
      created_at |-> self.created_at, added_at |-> t, updated_at |-> t ]

\* an update that keeps the stored values and only stamps updated_at
merge_keep_stored(found, self, t) ==
    [ found EXCEPT
        !.display_name = or(found.display_name, self.display_name),
        !.profile_url = or(found.profile_url, self.profile_url),
        !.avatar_url = or(found.avatar_url, self.avatar_url),
        !.created_at = or(found.created_at, self.created_at),
        !.updated_at = t ]

\* an update that also takes the uuid and added_at of the incoming value
merge_found_identity_too(found, self, t) ==
    [ found EXCEPT
        !.uuid = or(self.uuid, found.uuid),
        !.display_name = or(self.display_name, found.display_name),
        !.profile_url = self.profile_url,
        !.avatar_url = self.avatar_url,
        !.created_at = or(self.created_at, found.created_at),
        !.added_at = t,
        !.updated_at = t ]

\* The update branch: the fields of found as they are saved.
merge_found(found, self, t) ==
    [ found EXCEPT
        !.display_name = or(self.display_name, found.display_name),
        !.profile_url = self.profile_url,
        !.avatar_url = self.avatar_url,
        !.created_at = or(self.created_at, found.created_at),
        !.updated_at = t ]

\* DatabaseRecord::create gives the document a key of the collection.
WithKey(doc, key) ==
    [ key |-> key, uuid |-> doc.uuid, platform |-> doc.platform,
      identity |-> doc.identity, display_name |-> doc.display_name,
      profile_url |-> doc.profile_url, avatar_url |-> doc.avatar_url,
      created_at |-> doc.created_at, added_at |-> doc.added_at,
      updated_at |-> doc.updated_at ]

Returned(rec) == <<rec.key, rec.uuid, rec.added_at>>

\* create_or_update is called and its first lookup is answered; the branch
\* taken prepares the document to write.
IdentityFind(p) ==
    /\ ipc[p] \in {"idle", "done"}
    /\ ncalls < MaxCalls
    /\ \E self \in IdentityInputs(ncalls + 1), t \in ClockReads :
         LET found == find_by_platform_identity(
                          identities, self.platform, self.identity)
         IN  /\ iself' = [iself EXCEPT ![p] = Some(self)]
             /\ ifound' = [ifound EXCEPT ![p] = found]
             /\ now' = t
             /\ IF found = None
                THEN /\ idoc' = [idoc EXCEPT
                                   ![p] = Some(to_be_created(self, ncalls + 1, t))]
                     /\ ipc' = [ipc EXCEPT ![p] = "create"]
                ELSE /\ idoc' = [idoc EXCEPT
                                   ![p] = Some(merge_found(found[1], self, t))]
                     /\ ipc' = [ipc EXCEPT ![p] = "save"]
    /\ ncalls' = ncalls + 1
    /\ iret' = [iret EXCEPT ![p] = None]
    /\ UNCHANGED <<identities, ireturned>>
    /\ UNCHANGED <<serviceVars, crawlVars, edgeVars>>

\* DatabaseRecord::create(to_be_created, db): Ok(created) is returned, or
\* the store answers Conflict and the call goes on to refetch.
IdentityCreate(p) ==
    /\ ipc[p] = "create"
    /\ IF UniqueIndexViolated(identities, idoc[p][1])
       THEN /\ ipc' = [ipc EXCEPT ![p] = "refetch"]
            /\ UNCHANGED <<identities, iret, ireturned>>
       ELSE LET created == WithKey(idoc[p][1], Cardinality(identities) + 1)
                k == <<created.platform, created.identity>>
            IN  /\ identities' = identities \cup {created}
                /\ iret' = [iret EXCEPT ![p] = Some(created)]
                /\ ireturned' = [ireturned EXCEPT
                                   ![k] = @ \cup {Returned(created)}]
                /\ ipc' = [ipc EXCEPT ![p] = "done"]
    /\ UNCHANGED <<now, ncalls, iself, ifound, idoc>>
    /\ UNCHANGED <<serviceVars, crawlVars, edgeVars>>

\* a conflict answered with the document the caller tried to create
IdentityReturnOwn(p) ==
    /\ ipc[p] = "refetch"
    /\ LET own == WithKey(idoc[p][1], Cardinality(identities) + 1)
           k == <<own.platform, own.identity>>
       IN  /\ iret' = [iret EXCEPT ![p] = Some(own)]
           /\ ireturned' = [ireturned EXCEPT ![k] = @ \cup {Returned(own)}]
           /\ ipc' = [ipc EXCEPT ![p] = "done"]
    /\ UNCHANGED <<now, ncalls, identities, iself, ifound, idoc>>
    /\ UNCHANGED <<serviceVars, crawlVars, edgeVars>>

\* need_refetch: the second lookup; found.expect(..) panics on None.
IdentityRefetch(p) ==
    /\ ipc[p] = "refetch"
    /\ LET self == iself[p][1]
           found == find_by_platform_identity(
                        identities, self.platform, self.identity)
           k == <<self.platform, self.identity>>
       IN  IF found = None
           THEN /\ ipc' = [ipc EXCEPT ![p] = "panicked"]
                /\ UNCHANGED <<iret, ireturned>>
           ELSE /\ iret' = [iret EXCEPT ![p] = found]
                /\ ireturned' = [ireturned EXCEPT
                                   ![k] = @ \cup {Returned(found[1])}]
                /\ ipc' = [ipc EXCEPT ![p] = "done"]
    /\ UNCHANGED <<now, ncalls, identities, iself, ifound, idoc>>
    /\ UNCHANGED <<serviceVars, crawlVars, edgeVars>>

\* found.save(db): the merged document replaces the stored one of its key.
IdentitySave(p) ==
    /\ ipc[p] = "save"
    /\ LET merged == idoc[p][1]
           k == <<merged.platform, merged.identity>>
       IN  /\ identities' =
                 { d \in identities : d.key # merged.key } \cup {merged}
           /\ iret' = [iret EXCEPT ![p] = Some(merged)]
           /\ ireturned' = [ireturned EXCEPT ![k] = @ \cup {Returned(merged)}]
    /\ ipc' = [ipc EXCEPT ![p] = "done"]
    /\ UNCHANGED <<now, ncalls, iself, ifound, idoc>>
    /\ UNCHANGED <<serviceVars, crawlVars, edgeVars>>

create_or_update(p) ==
    \/ IdentityFind(p)
    \/ IdentityCreate(p)
    \/ IdentityRefetch(p)
    \/ IdentitySave(p)

InitIdentity == CrawlIdle /\ GraphIdle /\ ServiceIdle

\* One caller: its calls follow one another.  No create is refused then, so
\* the refetch is never entered.
NextIdentitySeq == IdentityFind(1) \/ IdentityCreate(1) \/ IdentitySave(1)

SpecIdentitySeq == InitIdentity /\ [][NextIdentitySeq]_vars

\* Concurrent callers: their lookups and writes interleave.
NextIdentity == \E p \in Procs : create_or_update(p)

SpecIdentity == InitIdentity /\ [][NextIdentity]_vars

\* ------------------------------------------------------------------------
\* graph::edge::Hold
\* ------------------------------------------------------------------------
\* The ids of the vertex records the edges connect.
IdentityIds == {"Identities/1", "Identities/2"}
ContractIds == {"Contracts/1", "Contracts/2"}

\* The Hold values connect is called on by the n-th call, with its from and
\* to; updated_at was set with naive_now() when the Fetcher built the value.
HoldInputs(n, t) ==
    { [ from |-> f, to |-> c, id |-> i, uuid |-> <<"v4", n>>, source |-> s,
        transaction |-> x, updated_at |-> t ] :
      f \in IdentityIds, c \in ContractIds, i \in {"1", "2"},
      s \in {"rss3", "knn3"}, x \in {None, Some(n)} }

\* DatabaseRecord::link(from, to, db, self): the edge document as stored.
HoldEdge(self, key) ==
    [ key |-> key, from |-> self.from, to |-> self.to, id |-> self.id,
      uuid |-> self.uuid, source |-> self.source,
      transaction |-> self.transaction, updated_at |-> self.updated_at ]

\* a lookup that leaves the NFT id out of the filter
find_by_from_to(edges, from, to, id) ==
    LET result == { e \in edges : e.from = from /\ e.to = to }
    IN  IF result = {} THEN None ELSE Some(MinKey(result))

\* Hold::find_by_from_to_id
find_by_from_to_id(edges, from, to, id) ==
    LET result == { e \in edges : e.from = from /\ e.to = to /\ e.id = id }
    IN  IF result = {} THEN None ELSE Some(MinKey(result))

\* a connect that stamps the edge it finds with the updated_at of the value
\* it was called on
HoldFindRefreshing(p) ==
    /\ hpc[p] \in {"idle", "done"}
    /\ ncalls < MaxCalls
    /\ \E t \in ClockReads :
         \E self \in HoldInputs(ncalls + 1, t) :
           LET found == find_by_from_to_id(holds, self.from, self.to, self.id)
           IN  /\ now' = t
               /\ hself' = [hself EXCEPT ![p] = Some(self)]
               /\ hfound' = [hfound EXCEPT ![p] = found]
               /\ IF found = None
                  THEN /\ hpc' = [hpc EXCEPT ![p] = "link"]
                       /\ hret' = [hret EXCEPT ![p] = None]
                       /\ UNCHANGED holds
                  ELSE LET edge == [ found[1] EXCEPT
                                       !.updated_at = self.updated_at ]
                       IN  /\ hpc' = [hpc EXCEPT ![p] = "done"]
                           /\ hret' = [hret EXCEPT ![p] = Some(edge)]
                           /\ holds' = (holds \ {found[1]}) \cup {edge}
    /\ ncalls' = ncalls + 1
    /\ UNCHANGED <<serviceVars, crawlVars, vertexVars, resolveVars>>

\* Hold::connect is called and its lookup is answered: a found edge is
\* returned as it is, otherwise the call goes on to link.
HoldFind(p) ==
    /\ hpc[p] \in {"idle", "done"}
    /\ ncalls < MaxCalls
    /\ \E t \in ClockReads :
         \E self \in HoldInputs(ncalls + 1, t) :
           LET found == find_by_from_to_id(holds, self.from, self.to, self.id)
           IN  /\ now' = t
               /\ hself' = [hself EXCEPT ![p] = Some(self)]
               /\ hfound' = [hfound EXCEPT ![p] = found]
               /\ IF found = None
                  THEN /\ hpc' = [hpc EXCEPT ![p] = "link"]
                       /\ hret' = [hret EXCEPT ![p] = None]
                  ELSE /\ hpc' = [hpc EXCEPT ![p] = "done"]
                       /\ hret' = [hret EXCEPT ![p] = found]
    /\ ncalls' = ncalls + 1
    /\ UNCHANGED holds
    /\ UNCHANGED <<serviceVars, crawlVars, vertexVars, resolveVars>>

\* DatabaseRecord::link(from, to, db, self.clone()): a new edge is stored
\* and returned.
HoldLink(p) ==
    /\ hpc[p] = "link"
    /\ LET edge == HoldEdge(hself[p][1], Cardinality(holds) + 1)
       IN  /\ holds' = holds \cup {edge}
           /\ hret' = [hret EXCEPT ![p] = Some(edge)]
    /\ hpc' = [hpc EXCEPT ![p] = "done"]
    /\ UNCHANGED <<hself, hfound>>
    /\ UNCHANGED <<serviceVars, crawlVars, clockVars, vertexVars, resolveVars>>

HoldConnect(p) == HoldFind(p) \/ HoldLink(p)

InitHold == InitIdentity

NextHoldSeq == HoldConnect(1)

SpecHoldSeq == InitHold /\ [][NextHoldSeq]_vars

\* Fetchers run in parallel in fetch_one, and one Fetcher saves its items in
\* parallel: connects for one triple interleave.
NextHold == \E p \in Procs : HoldConnect(p)

SpecHold == InitHold /\ [][NextHold]_vars

\* ------------------------------------------------------------------------
\* graph::edge::Resolve
\* ------------------------------------------------------------------------
\* The Resolve values connect is called on by the n-th call, with its from
\* (a Contract) and to (an Identity).
ResolveInputs(n, t) ==
    { [ from |-> c, to |-> i, name |-> nm, system |-> sy,
        uuid |-> <<"v4", n>>, source |-> "knn3", updated_at |-> t ] :
      c \in ContractIds, i \in IdentityIds,
      nm \in {"alice.eth", "bob.eth"}, sy \in {"ENS", "unknown"} }

\* DatabaseRecord::link(from, to, db, self): the edge document as stored.
ResolveEdge(self, key) ==
    [ key |-> key, from |-> self.from, to |-> self.to, name |-> self.name,
      system |-> self.system, uuid |-> self.uuid, source |-> self.source,
      updated_at |-> self.updated_at ]

\* Resolve::find_by_name_system
find_by_name_system(edges, name, system) ==
    LET result == { e \in edges : e.system = system /\ e.name = name }
    IN  IF result = {} THEN None ELSE Some(MinKey(result))

\* a delete that leaves the edge in the collection
delete_nothing(edges, edge) == edges

\* edge.delete(db): the document of that key leaves the collection.
delete(edges, edge) == { e \in edges : e.key # edge.key }

\* a connect that replaces every edge it finds, also one of its own pair
ResolveFindReplacing(p) ==
    /\ rpc[p] \in {"idle", "done", "failed"}
    /\ ncalls < MaxCalls
    /\ \E t \in ClockReads :
         \E self \in ResolveInputs(ncalls + 1, t) :
           LET found == find_by_name_system(resolves, self.name, self.system)
           IN  /\ now' = t
               /\ rself' = [rself EXCEPT ![p] = Some(self)]
               /\ rfound' = [rfound EXCEPT ![p] = found]
               /\ rpc' = [rpc EXCEPT
                            ![p] = IF found = None THEN "link" ELSE "delete"]
               /\ rret' = [rret EXCEPT ![p] = None]
    /\ ncalls' = ncalls + 1
    /\ UNCHANGED <<resolves, rkeys>>
    /\ UNCHANGED <<serviceVars, crawlVars, vertexVars, holdVars>>

\* Resolve::connect is called and its lookup is answered: an edge of the
\* same (from, to) is returned as it is; an edge of another pair is to be
\* deleted; with no edge the call goes on to link.
ResolveFind(p) ==
    /\ rpc[p] \in {"idle", "done", "failed"}
    /\ ncalls < MaxCalls
    /\ \E t \in ClockReads :
         \E self \in ResolveInputs(ncalls + 1, t) :
           LET found == find_by_name_system(resolves, self.name, self.system)
           IN  /\ now' = t
               /\ rself' = [rself EXCEPT ![p] = Some(self)]
               /\ rfound' = [rfound EXCEPT ![p] = found]
               /\ IF found = None
                  THEN /\ rpc' = [rpc EXCEPT ![p] = "link"]
                       /\ rret' = [rret EXCEPT ![p] = None]
                  ELSE IF found[1].from = self.from /\ found[1].to = self.to
                  THEN /\ rpc' = [rpc EXCEPT ![p] = "done"]
                       /\ rret' = [rret EXCEPT ![p] = found]
                  ELSE /\ rpc' = [rpc EXCEPT ![p] = "delete"]
                       /\ rret' = [rret EXCEPT ![p] = None]
    /\ ncalls' = ncalls + 1
    /\ UNCHANGED <<resolves, rkeys>>
    /\ UNCHANGED <<serviceVars, crawlVars, vertexVars, holdVars>>

\* edge.delete(db).await?: the old edge is removed; when it is no longer
\* stored the store answers with an error and connect returns it.
ResolveDelete(p) ==
    /\ rpc[p] = "delete"
    /\ IF \E e \in resolves : e.key = rfound[p][1].key
       THEN /\ resolves' = delete(resolves, rfound[p][1])
            /\ rpc' = [rpc EXCEPT ![p] = "link"]
       ELSE /\ rpc' = [rpc EXCEPT ![p] = "failed"]
            /\ UNCHANGED resolves
    /\ UNCHANGED <<rkeys, rself, rfound, rret>>
    /\ UNCHANGED <<serviceVars, crawlVars, clockVars, vertexVars, holdVars>>

\* DatabaseRecord::link(from, to, db, self.clone()): a new edge is stored
\* and returned.
ResolveLink(p) ==
    /\ rpc[p] = "link"
    /\ LET edge == ResolveEdge(rself[p][1], rkeys + 1)
       IN  /\ resolves' = resolves \cup {edge}
           /\ rret' = [rret EXCEPT ![p] = Some(edge)]
    /\ rkeys' = rkeys + 1
    /\ rpc' = [rpc EXCEPT ![p] = "done"]
    /\ UNCHANGED <<rself, rfound>>
    /\ UNCHANGED <<serviceVars, crawlVars, clockVars, vertexVars, holdVars>>

ResolveConnect(p) == ResolveFind(p) \/ ResolveDelete(p) \/ ResolveLink(p)

InitResolve == InitIdentity

NextResolveSeq == ResolveConnect(1)

SpecResolveSeq == InitResolve /\ [][NextResolveSeq]_vars

NextResolve == \E p \in Procs : ResolveConnect(p)

SpecResolve == InitResolve /\ [][NextResolve]_vars

\* DatabaseRecord::link(..).await? is answered with an error, or the call
\* is interrupted before it: connect ends with nothing linked.
ResolveLinkFails(p) ==
    /\ rpc[p] = "link"
    /\ rpc' = [rpc EXCEPT ![p] = "failed"]
    /\ UNCHANGED <<resolves, rkeys, rself, rfound, rret>>
    /\ UNCHANGED <<serviceVars, crawlVars, clockVars, vertexVars, holdVars>>

\* Resolve::connect is called, one call after another, on a collection
\* that holds the edge of one name already.
InitResolveStored ==
    /\ CrawlIdle /\ IdentityIdle /\ HoldIdle /\ ServiceIdle
    /\ resolves =
         { ResolveEdge([ from |-> "Contracts/1", to |-> "Identities/1",
                         name |-> "alice.eth", system |-> "ENS",
                         uuid |-> <<"v4", 0>>, source |-> "knn3",
                         updated_at |-> 0 ], 1) }
    /\ rkeys = 1
    /\ rpc = [p \in Procs |-> "idle"]
    /\ rself = [p \in Procs |-> None]
    /\ rfound = [p \in Procs |-> None]
    /\ rret = [p \in Procs |-> None]

NextResolveFaulty == ResolveConnect(1) \/ ResolveLinkFails(1)

SpecResolveFaulty == InitResolveStored /\ [][NextResolveFaulty]_vars

\* ------------------------------------------------------------------------
\* is_outdated of Identity, Hold and Resolve
\* ------------------------------------------------------------------------
\* chrono::Duration::hours and Duration::days, in seconds.
Duration_hours(n) == n * 3600
Duration_days(n) == n * 86400

\* an Identity that is outdated a minute after its update
Identity_is_outdated_minute(updated_at, t) == updated_at + 60 < t

\* an Identity that is outdated from updated_at + ttl on
Identity_is_outdated_le(updated_at, t) == updated_at + Duration_hours(1) <= t

\* Identity::is_outdated: updated_at + 1 hour < naive_now()
Identity_is_outdated(updated_at, t) == updated_at + Duration_hours(1) < t

\* Hold::is_outdated: updated_at + 8 hours < naive_now()
Hold_is_outdated(updated_at, t) == updated_at + Duration_hours(8) < t

\* Resolve::is_outdated: updated_at + 1 day < naive_now()
Resolve_is_outdated(updated_at, t) == updated_at + Duration_days(1) < t

Kinds == {"Identity", "Hold", "Resolve"}

\* The instants around updated_at + ttl of every kind.
InstantsAround(updated_at) ==
    { updated_at + ttl + d :
        ttl \in {Duration_hours(1), Duration_hours(8), Duration_days(1)},
        d \in (0 - MaxSkew)..MaxSkew }

InitOutdated ==
    /\ CrawlIdle /\ GraphIdle /\ FetchIdle /\ QueryIdle /\ LaterIdle
    /\ opc = "called"
    /\ okind \in Kinds
    /\ oupdated_at \in 0..MaxStamp
    /\ onow \in InstantsAround(oupdated_at)
    /\ oresult = FALSE

\* is_outdated of the record's kind is evaluated and returns.
IsOutdated ==
    /\ opc = "called"
    /\ oresult' =
         CASE okind = "Identity" -> Identity_is_outdated(oupdated_at, onow)
           [] okind = "Hold" -> Hold_is_outdated(oupdated_at, onow)
           [] okind = "Resolve" -> Resolve_is_outdated(oupdated_at, onow)
    /\ opc' = "returned"
    /\ UNCHANGED <<okind, oupdated_at, onow>>
    /\ UNCHANGED <<crawlVars, identityVars, edgeVars, fetchVars, queryVars,
                   laterVars>>

NextOutdated == IsOutdated

SpecOutdated == InitOutdated /\ [][NextOutdated]_vars

\* ------------------------------------------------------------------------
\* Fetcher::fetch of the adapters
\* ------------------------------------------------------------------------
Adapters == {"Keybase", "Rss3", "Knn3"}

InitFetch ==
    /\ CrawlIdle /\ GraphIdle /\ OutdatedIdle /\ QueryIdle /\ LaterIdle
    /\ fpc = "called"
    /\ ffetcher \in Adapters
    /\ ftarget \in Targets
    /\ fupstream \in UpstreamAnswers(ffetcher, MaxFetched)
    /\ fresult = None

\* The fetch of the adapter runs and returns.
FetcherFetch ==
    /\ fpc = "called"
    /\ fresult' = fetch(ffetcher, ftarget, fupstream)
    /\ fpc' = "returned"
    /\ UNCHANGED <<ffetcher, ftarget, fupstream>>
    /\ UNCHANGED <<crawlVars, identityVars, edgeVars, outdatedVars, queryVars,
                   laterVars>>

NextFetch == FetcherFetch

SpecFetch == InitFetch /\ [][NextFetch]_vars

\* ------------------------------------------------------------------------
\* controller::graphql::IdentityQuery
\* ------------------------------------------------------------------------
\* The platforms and the identity the requests ask about.
QueryPlatforms == {"twitter", "ethereum"}
QueryIdentity == "alice"

\* The requests: identity(platform, identity) and
\* identities(platforms, identity).
Requests ==
    { [query |-> "identity", platforms |-> <<p>>, identity |-> QueryIdentity] :
        p \in QueryPlatforms }
    \cup { [query |-> "identities", platforms |-> ps,
            identity |-> QueryIdentity] :
             ps \in { <<"twitter">>, <<"ethereum">>,
                      <<"twitter", "ethereum">>, <<"ethereum", "twitter">> } }

\* The Identity a Fetcher upserts for a (platform, identity).
FetchedIdentity(platform, identity) ==
    [ uuid |-> None, platform |-> platform, identity |-> identity,
      display_name |-> None, profile_url |-> None, avatar_url |-> None,
      created_at |-> None ]

\* The record of a platform stored before the request, last updated at t.
StoredIdentity(platform, t) ==
    LET key == IF platform = "twitter" THEN 1 ELSE 2
    IN  WithKey(to_be_created(
                    FetchedIdentity(platform, QueryIdentity), key, t), key)

\* The stores a request can meet: each platform has no record of the
\* identity, or one record.
InitialStores ==
    { UNION { IF c[p] = None THEN {} ELSE {StoredIdentity(p, c[p][1])} :
              p \in QueryPlatforms } :
        c \in [QueryPlatforms -> {None} \cup { Some(t) : t \in 0..MaxStamp }] }

\* Hold::connect is called, one call after another, on a collection that
\* holds an edge whose updated_at is 8 hours before the first clock value.
InitHoldStored ==
    /\ CrawlIdle /\ IdentityIdle /\ ResolveIdle /\ ServiceIdle
    /\ holds =
         { HoldEdge([ from |-> "Identities/1", to |-> "Contracts/1",
                      id |-> "1", uuid |-> <<"v4", 0>>, source |-> "rss3",
                      transaction |-> None,
                      updated_at |-> 0 - Duration_hours(8) ], 1) }
    /\ hpc = [p \in Procs |-> "idle"]
    /\ hself = [p \in Procs |-> None]
    /\ hfound = [p \in Procs |-> None]
    /\ hret = [p \in Procs |-> None]

SpecHoldStored == InitHoldStored /\ [][NextHoldSeq]_vars

\* create_or_update is called by two callers on a store that already holds
\* the record of one of the pairs.
InitIdentityStored ==
    /\ CrawlIdle /\ HoldIdle /\ ResolveIdle /\ ServiceIdle
    /\ now = 0
    /\ ncalls = 0
    /\ identities =
         { WithKey(to_be_created(
                       FetchedIdentity("twitter", "alice"), 0, 0), 1) }
    /\ ipc = [p \in Procs |-> "idle"]
    /\ iself = [p \in Procs |-> None]
    /\ ifound = [p \in Procs |-> None]
    /\ idoc = [p \in Procs |-> None]
    /\ iret = [p \in Procs |-> None]
    /\ ireturned = [k \in IdentityKeys |-> {}]

SpecIdentityStored == InitIdentityStored /\ [][NextIdentity]_vars

\* DatabaseRecord::create(to_be_created, db) is answered with an error other
\* than Conflict: Err(err) => return Err(err.into()).
IdentityCreateFails(p) ==
    /\ ipc[p] = "create"
    /\ ipc' = [ipc EXCEPT ![p] = "failed"]
    /\ UNCHANGED <<now, ncalls, identities, iself, ifound, idoc, iret,
                   ireturned>>
    /\ UNCHANGED <<serviceVars, crawlVars, edgeVars>>

\* The lookup after a Conflict is answered with an error: the ? operator
\* returns it.
IdentityRefetchFails(p) ==
    /\ ipc[p] = "refetch"
    /\ ipc' = [ipc EXCEPT ![p] = "failed"]
    /\ UNCHANGED <<now, ncalls, identities, iself, ifound, idoc, iret,
                   ireturned>>
    /\ UNCHANGED <<serviceVars, crawlVars, edgeVars>>

\* Two callers of create_or_update for one (platform, identity) on a store
\* that may answer the create and the lookup that follows a Conflict with
\* an error.
NextIdentityFaulty ==
    \E p \in Procs :
        \/ /\ create_or_update(p)
           /\ iself'[p][1].platform = "twitter"
        \/ IdentityCreateFails(p)
        \/ IdentityRefetchFails(p)

SpecIdentityFaulty == InitIdentity /\ [][NextIdentityFaulty]_vars

\* Identity::find_by_platforms_identity
find_by_platforms_identity(docs, platforms, identity) ==
    { d \in docs :
        /\ d.identity = identity
        /\ \E i \in 1..Len(platforms) : d.platform = platforms[i] }

\* Option<IdentityRecord> as the set of the records it holds.
AsSet(option) == IF option = None THEN {} ELSE {option[1]}

\* .rev() of the platforms of the request.
RECURSIVE rev(_)
rev(list) == IF list = <<>> THEN <<>> ELSE Append(rev(Tail(list)), Head(list))

\* a spawn that starts no task
spawn_nothing(started, target) == started

\* tokio::spawn(async move { fetch_all(target).await }): a detached crawl.
spawn(started, target) ==
    Append(started, [target |-> target, detached |-> TRUE, pc |-> "running"])

\* fetch_all(target) is called and awaited by the request.
call(started, target) ==
    Append(started, [target |-> target, detached |-> FALSE, pc |-> "running"])

\* an await that is over as soon as the crawl was started
awaited_at_once(crawl) == TRUE

\* fetch_all(target).await: the request goes on when the crawl has returned.
awaited(crawl) == crawl.pc = "returned"

\* The detached crawls of the records that are outdated, started in the
\* order of the keys of the records.
RECURSIVE spawn_outdated(_, _, _)
spawn_outdated(started, records, t) ==
    IF records = {} THEN started
    ELSE LET r == MinKey(records)
         IN  spawn_outdated(
                 IF Identity_is_outdated(r.updated_at, t)
                 THEN spawn(started, TargetIdentity(r.platform, r.identity))
                 ELSE started,
                 records \ {r}, t)

InitQuery ==
    /\ CrawlIdle /\ HoldIdle /\ ResolveIdle /\ OutdatedIdle /\ FetchIdle
    /\ LaterIdle
    /\ ipc = [p \in Procs |-> "idle"]
    /\ iself = [p \in Procs |-> None]
    /\ ifound = [p \in Procs |-> None]
    /\ idoc = [p \in Procs |-> None]
    /\ iret = [p \in Procs |-> None]
    /\ ireturned = [k \in IdentityKeys |-> {}]
    /\ ncalls = 0
    /\ identities \in InitialStores
    /\ now \in { Duration_hours(1) + d : d \in (0 - MaxSkew)..MaxSkew }
    /\ qpc = "called"
    /\ qreq \in Requests
    /\ qfound = {}
    /\ qnext = 0
    /\ qanswer = {}
    /\ crawls = <<>>

\* IdentityQuery::identity up to its answer or to the await of fetch_all.
IdentityQueryLookup ==
    /\ qpc = "called"
    /\ qreq.query = "identity"
    /\ LET platform == qreq.platforms[1]
           target == TargetIdentity(platform, qreq.identity)
           found == find_by_platform_identity(
                        identities, platform, qreq.identity)
       IN  /\ qfound' = AsSet(found)
           /\ IF found = None
              THEN /\ crawls' = call(crawls, target)
                   /\ qpc' = "awaiting"
                   /\ UNCHANGED qanswer
              ELSE /\ crawls' = IF Identity_is_outdated(found[1].updated_at, now)
                                THEN spawn(crawls, target)
                                ELSE crawls
                   /\ qanswer' = AsSet(found)
                   /\ qpc' = "answered"
    /\ UNCHANGED <<qreq, qnext>>
    /\ UNCHANGED <<crawlVars, clockVars, identities, callerVars, edgeVars,
                   outdatedVars, fetchVars, laterVars>>

\* IdentityQuery::identity after fetch_all(target).await: the store is read
\* again and what it holds is the answer.
IdentityQueryReread ==
    /\ qpc = "awaiting"
    /\ qreq.query = "identity"
    /\ awaited(crawls[Len(crawls)])
    /\ qanswer' = AsSet(find_by_platform_identity(
                            identities, qreq.platforms[1], qreq.identity))
    /\ qpc' = "answered"
    /\ UNCHANGED <<qreq, qfound, qnext, crawls>>
    /\ UNCHANGED <<crawlVars, clockVars, identities, callerVars, edgeVars,
                   outdatedVars, fetchVars, laterVars>>

\* IdentityQuery::identities up to its answer or to the await of the first
\* fetch_all.
IdentitiesQueryLookup ==
    /\ qpc = "called"
    /\ qreq.query = "identities"
    /\ LET platforms == rev(qreq.platforms)
           record == find_by_platforms_identity(
                         identities, platforms, qreq.identity)
       IN  /\ qfound' = record
           /\ IF record = {}
              THEN /\ crawls' = call(crawls,
                                     TargetIdentity(platforms[1], qreq.identity))
                   /\ qnext' = 1
                   /\ qpc' = "awaiting"
                   /\ UNCHANGED qanswer
              ELSE /\ crawls' = spawn_outdated(crawls, record, now)
                   /\ qanswer' = record
                   /\ qpc' = "answered"
                   /\ UNCHANGED qnext
    /\ UNCHANGED qreq
    /\ UNCHANGED <<crawlVars, clockVars, identities, callerVars, edgeVars,
                   outdatedVars, fetchVars, laterVars>>

\* IdentityQuery::identities after one fetch_all(target).await of its loop:
\* the crawl of the next platform is started, or the store is read again
\* and what it holds is the answer.
IdentitiesQueryNext ==
    /\ qpc = "awaiting"
    /\ qreq.query = "identities"
    /\ awaited(crawls[Len(crawls)])
    /\ LET platforms == rev(qreq.platforms)
       IN  IF qnext < Len(platforms)
           THEN /\ crawls' = call(crawls, TargetIdentity(
                                    platforms[qnext + 1], qreq.identity))
                /\ qnext' = qnext + 1
                /\ UNCHANGED <<qpc, qanswer>>
           ELSE /\ qanswer' = find_by_platforms_identity(
                                  identities, platforms, qreq.identity)
                /\ qpc' = "answered"
                /\ UNCHANGED <<qnext, crawls>>
    /\ UNCHANGED <<qreq, qfound>>
    /\ UNCHANGED <<crawlVars, clockVars, identities, callerVars, edgeVars,
                   outdatedVars, fetchVars, laterVars>>

\* A Fetcher of a running crawl upserts the Identity of a platform with
\* create_or_update.
CrawlWrite(i) ==
    /\ crawls[i].pc = "running"
    /\ ncalls < MaxCalls
    /\ \E platform \in QueryPlatforms :
         LET self == FetchedIdentity(platform, QueryIdentity)
             found == find_by_platform_identity(
                          identities, platform, QueryIdentity)
             n == Cardinality(QueryPlatforms) + ncalls + 1
         IN  identities' =
               IF found = None
               THEN identities \cup {WithKey(to_be_created(self, n, now), n)}
               ELSE { d \in identities : d.key # found[1].key }
                      \cup {merge_found(found[1], self, now)}
    /\ ncalls' = ncalls + 1
    /\ UNCHANGED <<now, callerVars, queryVars>>
    /\ UNCHANGED <<crawlVars, edgeVars, outdatedVars, fetchVars, laterVars>>

\* The work list of a crawl is empty: its fetch_all returns Ok(()).
CrawlReturn(i) ==
    /\ crawls[i].pc = "running"
    /\ crawls' = [crawls EXCEPT ![i].pc = "returned"]
    /\ UNCHANGED <<qpc, qreq, qfound, qnext, qanswer>>
    /\ UNCHANGED <<crawlVars, identityVars, edgeVars, outdatedVars, fetchVars,
                   laterVars>>

\* A Fetcher of a crawl panics (todo!(), unwrap, expect): a detached task
\* ends; a crawl the request awaits takes the request with it.
CrawlPanic(i) ==
    /\ crawls[i].pc = "running"
    /\ crawls' = [crawls EXCEPT ![i].pc = "panicked"]
    /\ qpc' = IF crawls[i].detached THEN qpc ELSE "panicked"
    /\ UNCHANGED <<qreq, qfound, qnext, qanswer>>
    /\ UNCHANGED <<crawlVars, identityVars, edgeVars, outdatedVars, fetchVars,
                   laterVars>>

NextQuery ==
    \/ IdentityQueryLookup
    \/ IdentityQueryReread
    \/ IdentitiesQueryLookup
    \/ IdentitiesQueryNext
    \/ \E i \in 1..Len(crawls) : CrawlWrite(i) \/ CrawlReturn(i) \/ CrawlPanic(i)

SpecQuery == InitQuery /\ [][NextQuery]_vars

\* Two identity(twitter, alice) requests are served at the same time on an
\* empty store; p names the request and the create_or_update caller of the
\* crawl it starts.
InitTwoRequests ==
    /\ CrawlIdle /\ GraphIdle
    /\ OutdatedIdle /\ FetchIdle /\ QueryIdle /\ AssetIdle
    /\ kpc = [p \in Procs |-> "called"]
    /\ kop = [p \in Procs |-> None]
    /\ kresult = [p \in Procs |-> None]

requestFrame ==
    <<crawlVars, identityVars, edgeVars, outdatedVars, fetchVars, assetVars,
      qpc, qreq, qfound, qnext, qanswer>>

\* IdentityQuery::identity of request p up to its answer or to the await of
\* the fetch_all it calls.
RequestLookup(p) ==
    /\ kpc[p] = "called"
    /\ LET target == TargetIdentity("twitter", QueryIdentity)
           found == find_by_platform_identity(
                        identities, "twitter", QueryIdentity)
       IN  IF found = None
           THEN /\ crawls' = call(crawls, target)
                /\ kop' = [kop EXCEPT ![p] = Some(Len(crawls) + 1)]
                /\ kpc' = [kpc EXCEPT ![p] = "awaiting"]
                /\ UNCHANGED kresult
           ELSE /\ crawls' = IF Identity_is_outdated(found[1].updated_at, now)
                             THEN spawn(crawls, target)
                             ELSE crawls
                /\ kresult' = [kresult EXCEPT ![p] = found]
                /\ kpc' = [kpc EXCEPT ![p] = "answered"]
                /\ UNCHANGED kop
    /\ UNCHANGED requestFrame

\* A Fetcher of the crawl of request p takes a step of its create_or_update
\* on the Identity asked for.
RequestCrawlWrite(p) ==
    /\ kpc[p] = "awaiting"
    /\ crawls[kop[p][1]].pc = "running"
    /\ create_or_update(p)
    /\ iself'[p][1] = FetchedIdentity("twitter", QueryIdentity)

\* The crawl of request p has no Target left and no write under way: its
\* fetch_all returns.
RequestCrawlReturn(p) ==
    /\ kpc[p] = "awaiting"
    /\ ipc[p] \in {"idle", "done"}
    /\ CrawlReturn(kop[p][1])

\* IdentityQuery::identity of request p after fetch_all(target).await: the
\* store is read again and what it holds is the answer.
RequestReread(p) ==
    /\ kpc[p] = "awaiting"
    /\ awaited(crawls[kop[p][1]])
    /\ kresult' = [kresult EXCEPT
                     ![p] = find_by_platform_identity(
                                identities, "twitter", QueryIdentity)]
    /\ kpc' = [kpc EXCEPT ![p] = "answered"]
    /\ UNCHANGED <<kop, crawls>>
    /\ UNCHANGED requestFrame

NextTwoRequests ==
    \E p \in Procs :
        \/ RequestLookup(p)
        \/ RequestCrawlWrite(p)
        \/ RequestCrawlReturn(p)
        \/ RequestReread(p)

SpecTwoRequests == InitTwoRequests /\ [][NextTwoRequests]_vars

\* ------------------------------------------------------------------------
\* A crawl with the store writes of its Fetchers
\* ------------------------------------------------------------------------
\* The seed of the crawl and the wallet its Proof leads to.
Seed == TargetIdentity("twitter", "alice")
Wallet == TargetIdentity("ethereum", "0xabc")

\* The Fetcher that answers for the seed asserts a Proof to the wallet; the
\* Fetcher that answers for the wallet asserts a Hold of alice.eth.
FetcherX == "ProofClient"
FetcherY == "Rss3"

\* DatabaseRecord::id() of a stored document.
id(collection, rec) == <<collection, rec.key>>

\* Identity::create_or_update from its lookup to its return when no other
\* writer of the pair runs in between: the created or the saved record.
create_or_update_alone(docs, self, n, t) ==
    LET found == find_by_platform_identity(docs, self.platform, self.identity)
    IN  IF found = None
        THEN LET created ==
                     WithKey(to_be_created(self, n, t), Cardinality(docs) + 1)
             IN  [docs |-> docs \cup {created}, record |-> created]
        ELSE LET merged == merge_found(found[1], self, t)
             IN  [docs |-> { d \in docs : d.key # merged.key } \cup {merged},
                  record |-> merged]

\* Contract::find_by_chain_address
find_by_chain_address(docs, chain, address) ==
    LET result == { d \in docs : d.chain = chain /\ d.address = address }
    IN  IF result = {} THEN None ELSE Some(MinKey(result))

\* Contract::create_or_update: one Contract per (chain, address); a stored
\* one is stamped and saved.
Contract_create_or_update(docs, self, t) ==
    LET found == find_by_chain_address(docs, self.chain, self.address)
    IN  IF found = None
        THEN LET created ==
                     [ key |-> Cardinality(docs) + 1, uuid |-> self.uuid,
                       category |-> self.category, address |-> self.address,
                       chain |-> self.chain, symbol |-> self.symbol,
                       updated_at |-> t ]
             IN  [docs |-> docs \cup {created}, record |-> created]
        ELSE LET saved == [ found[1] EXCEPT
                              !.symbol = or(self.symbol, found[1].symbol),
                              !.updated_at = t ]
             IN  [docs |-> { d \in docs : d.key # saved.key } \cup {saved},
                  record |-> saved]

\* Proof::find_by_from_to
find_by_from_to_record_id(edges, from, to, record_id) ==
    LET result == { e \in edges :
                      e.from = from /\ e.to = to /\ e.record_id = record_id }
    IN  IF result = {} THEN None ELSE Some(MinKey(result))

\* Proof::connect: a found edge is returned as it is, otherwise a new edge
\* is linked.
Proof_connect(edges, self) ==
    IF find_by_from_to_record_id(edges, self.from, self.to, self.record_id)
         # None
    THEN edges
    ELSE edges \cup
           { [ key |-> Cardinality(edges) + 1, from |-> self.from,
               to |-> self.to, uuid |-> self.uuid, source |-> self.source,
               record_id |-> self.record_id, updated_at |-> self.updated_at ] }

\* Hold::connect from its lookup to its return with no other writer.
Hold_connect(edges, self) ==
    IF find_by_from_to_id(edges, self.from, self.to, self.id) # None
    THEN edges
    ELSE edges \cup {HoldEdge(self, Cardinality(edges) + 1)}

\* The Identity values a Fetcher builds for a Target from an upstream item.
BuiltIdentities(target, n) ==
    { self \in IdentityInputs(n) :
        self.platform = target[2] /\ self.identity = target[3] }

\* What the six fetches of one fetch_one return: the two Fetchers answer
\* with x and y, the others have nothing to fetch.
ScenarioResults(x, y) ==
    [ i \in 1..Len(Fetchers) |->
        IF Fetchers[i] = FetcherX THEN Ok(x)
        ELSE IF Fetchers[i] = FetcherY THEN Ok(y)
        ELSE Ok(<<>>) ]

scenarioFrame ==
    <<joined, discovers, callerVars, hpc, hself, hfound, hret, resolveVars,
      outdatedVars, fetchVars, queryVars>>

InitScenario ==
    /\ cpc = "running"
    /\ up_next = <<Seed>>
    /\ processed = <<>>
    /\ explored = <<>>
    /\ joined = None
    /\ discovers = None
    /\ GraphIdle
    /\ ServiceIdle

\* fetch_one(&target) is called: the Fetcher that answers for the Target
\* starts on the item its upstream returned.
ScenarioFetchOne ==
    /\ cpc = "running"
    /\ Len(up_next) > 0
    /\ cpc' = "fetching"
    /\ kpc' = "called"
    /\ kop' = Some([ target |-> up_next[Len(up_next)], step |-> "from",
                     from |-> None, to |-> None ])
    /\ kresult' = None
    /\ UNCHANGED <<up_next, processed, explored>>
    /\ UNCHANGED <<clockVars, identities, holds, assetVars, scenarioFrame>>

\* from.create_or_update(db) of create_identity_to_identity_record and of
\* create_identity_to_contract_records: the Identity of the Target.
FetcherUpsertFrom ==
    /\ kpc = "called"
    /\ kop[1].step = "from"
    /\ \E self \in BuiltIdentities(kop[1].target, ncalls + 1), t \in ClockReads :
         LET r == create_or_update_alone(identities, self, ncalls + 1, t)
         IN  /\ identities' = r.docs
             /\ kop' = Some([ kop[1] EXCEPT
                                !.from = Some(r.record), !.step = "to" ])
             /\ now' = t
    /\ ncalls' = ncalls + 1
    /\ UNCHANGED <<kpc, kresult>>
    /\ UNCHANGED <<cpc, up_next, processed, explored>>
    /\ UNCHANGED <<holds, assetVars, scenarioFrame>>

\* to.create_or_update(db) of create_identity_to_identity_record: the
\* Identity of the wallet the Proof leads to.
FetcherUpsertToIdentity ==
    /\ kpc = "called"
    /\ kop[1].step = "to"
    /\ kop[1].target = Seed
    /\ \E self \in BuiltIdentities(Wallet, ncalls + 1), t \in ClockReads :
         LET r == create_or_update_alone(identities, self, ncalls + 1, t)
         IN  /\ identities' = r.docs
             /\ kop' = Some([ kop[1] EXCEPT
                                !.to = Some(r.record), !.step = "edge" ])
             /\ now' = t
    /\ ncalls' = ncalls + 1
    /\ UNCHANGED <<kpc, kresult>>
    /\ UNCHANGED <<cpc, up_next, processed, explored>>
    /\ UNCHANGED <<holds, assetVars, scenarioFrame>>

\* to.create_or_update(db) of create_identity_to_contract_records: the ENS
\* Contract.
FetcherUpsertToContract ==
    /\ kpc = "called"
    /\ kop[1].step = "to"
    /\ kop[1].target = Wallet
    /\ \E t \in ClockReads, symbol \in {None, Some("ENS")} :
         LET self == [ uuid |-> new_v4(ncalls + 1), category |-> "ENS",
                       address |-> "0xens", chain |-> "ethereum",
                       symbol |-> symbol ]
             r == Contract_create_or_update(contracts, self, t)
         IN  /\ contracts' = r.docs
             /\ kop' = Some([ kop[1] EXCEPT
                                !.to = Some(r.record), !.step = "edge" ])
             /\ now' = t
    /\ ncalls' = ncalls + 1
    /\ UNCHANGED <<kpc, kresult>>
    /\ UNCHANGED <<cpc, up_next, processed, explored>>
    /\ UNCHANGED <<identities, holds, proofs, scenarioFrame>>

\* proof.connect(db, &from_record, &to_record): the fetch of the Fetcher
\* returns the wallet as the next Target.
FetcherConnectProof ==
    /\ kpc = "called"
    /\ kop[1].step = "edge"
    /\ kop[1].target = Seed
    /\ LET self == [ from |-> id("Identities", kop[1].from[1]),
                     to |-> id("Identities", kop[1].to[1]),
                     uuid |-> new_v4(ncalls + 1), source |-> "nextid",
                     record_id |-> Some("1"), updated_at |-> now ]
       IN  proofs' = Proof_connect(proofs, self)
    /\ kresult' = Some(ScenarioResults(<<Wallet>>, <<>>))
    /\ kpc' = "returned"
    /\ ncalls' = ncalls + 1
    /\ UNCHANGED <<now, kop>>
    /\ UNCHANGED <<cpc, up_next, processed, explored>>
    /\ UNCHANGED <<identities, holds, contracts, scenarioFrame>>

\* hold.connect(db, &from_record, &to_record): the fetch of the Fetcher
\* returns no Target; the other Fetcher, asked about the wallet, returns
\* nothing or the seed the wallet is proven to belong to.
FetcherConnectHold ==
    /\ kpc = "called"
    /\ kop[1].step = "edge"
    /\ kop[1].target = Wallet
    /\ \E transaction \in {None, Some(ncalls + 1)} :
         LET self == [ from |-> id("Identities", kop[1].from[1]),
                       to |-> id("Contracts", kop[1].to[1]),
                       id |-> "alice.eth", uuid |-> new_v4(ncalls + 1),
                       source |-> "rss3", transaction |-> transaction,
                       updated_at |-> now ]
         IN  holds' = Hold_connect(holds, self)
    /\ \E x \in { <<>>, <<Seed>> } :
         kresult' = Some(ScenarioResults(x, <<>>))
    /\ kpc' = "returned"
    /\ ncalls' = ncalls + 1
    /\ UNCHANGED <<now, kop>>
    /\ UNCHANGED <<cpc, up_next, processed, explored>>
    /\ UNCHANGED <<identities, assetVars, scenarioFrame>>

\* The join_all of fetch_one completes and the rest of the loop body runs.
ScenarioJoined ==
    /\ cpc = "fetching"
    /\ kpc = "returned"
    /\ FetchAllStep(kop[1].target, fetch_one(kresult[1]))
    /\ kpc' = "idle"
    /\ kop' = None
    /\ kresult' = None
    /\ UNCHANGED <<clockVars, identities, holds, assetVars, scenarioFrame>>

NextScenario ==
    \/ ScenarioFetchOne
    \/ FetcherUpsertFrom
    \/ FetcherUpsertToIdentity
    \/ FetcherUpsertToContract
    \/ FetcherConnectProof
    \/ FetcherConnectHold
    \/ ScenarioJoined
    \/ FetchAllReturn

SpecScenario == InitScenario /\ [][NextScenario]_vars

\* ------------------------------------------------------------------------
\* The store under the writes of concurrent Fetchers
\* ------------------------------------------------------------------------
\* A Fetcher upserts the ENS Contract.
ContractUpsert ==
    /\ ncalls < MaxCalls
    /\ \E t \in ClockReads, symbol \in {None, Some("ENS")} :
         LET self == [ uuid |-> new_v4(ncalls + 1), category |-> "ENS",
                       address |-> "0xens", chain |-> "ethereum",
                       symbol |-> symbol ]
         IN  /\ contracts' = Contract_create_or_update(contracts, self, t).docs
             /\ now' = t
    /\ ncalls' = ncalls + 1
    /\ UNCHANGED <<proofs, opVars>>
    /\ UNCHANGED <<crawlVars, vertexVars, edgeVars, outdatedVars, fetchVars,
                   queryVars>>

\* A Fetcher asserts a Proof between two Identity records.
ProofConnect ==
    /\ ncalls < MaxCalls
    /\ \E from \in IdentityIds, to \in IdentityIds,
          record_id \in {None, Some("1")} :
         LET self == [ from |-> from, to |-> to, uuid |-> new_v4(ncalls + 1),
                       source |-> "keybase", record_id |-> record_id,
                       updated_at |-> now ]
         IN  proofs' = Proof_connect(proofs, self)
    /\ ncalls' = ncalls + 1
    /\ UNCHANGED <<now, contracts, opVars>>
    /\ UNCHANGED <<crawlVars, vertexVars, edgeVars, outdatedVars, fetchVars,
                   queryVars>>

\* The collections of the store.
Collections == {"Identities", "Contracts", "Proofs", "Holds", "Resolves"}

\* The writers of one collection run side by side.  The operations on
\* different collections share no document, so a run follows the writers
\* of the collection named by kop.  The connects of Holds, which only ever
\* add an edge, follow one another.
InitStore ==
    /\ CrawlIdle /\ GraphIdle
    /\ OutdatedIdle /\ FetchIdle /\ QueryIdle /\ AssetIdle
    /\ kpc = "idle"
    /\ kop \in { Some(c) : c \in Collections }
    /\ kresult = None

NextStore ==
    \/ kop = Some("Identities") /\ \E p \in Procs : create_or_update(p)
    \/ kop = Some("Holds") /\ HoldConnect(1)
    \/ kop = Some("Resolves") /\ \E p \in Procs : ResolveConnect(p)
    \/ kop = Some("Contracts") /\ ContractUpsert
    \/ kop = Some("Proofs") /\ ProofConnect

SpecStore == InitStore /\ [][NextStore]_vars

\* ------------------------------------------------------------------------
\* Target accessors, Platform::from_str and Error::http_status
\* ------------------------------------------------------------------------
\* http::StatusCode
BAD_REQUEST == 400
INTERNAL_SERVER_ERROR == 500

\* Error::General(message, status) and Error::EnumParseError.
General(status) == <<"General", status>>
Error_EnumParseError == <<"EnumParseError">>

\* Error::http_status of the errors above.
http_status(error) ==
    CASE error[1] = "General" -> error[2]
      [] error[1] = "EnumParseError" -> BAD_REQUEST

\* Target::platform, identity, nft_chain, nft_category and nft_id.
Accessors == {"platform", "identity", "nft_chain", "nft_category", "nft_id"}

accessor(name, target) ==
    CASE name = "platform" ->
           IF target[1] = "Identity" THEN Ok(target[2])
           ELSE Err(General(INTERNAL_SERVER_ERROR))
      [] name = "identity" ->
           IF target[1] = "Identity" THEN Ok(target[3])
           ELSE Err(General(INTERNAL_SERVER_ERROR))
      [] name = "nft_chain" ->
           IF target[1] = "NFT" THEN Ok(target[2])
           ELSE Err(General(INTERNAL_SERVER_ERROR))
      [] name = "nft_category" ->
           IF target[1] = "NFT" THEN Ok(target[3])
           ELSE Err(General(INTERNAL_SERVER_ERROR))
      [] name = "nft_id" ->
           IF target[1] = "NFT" THEN Ok(target[5])
           ELSE Err(General(INTERNAL_SERVER_ERROR))

\* Platform::from_str, derived by EnumString from the serialize names.
Platform_from_str(field) ==
    CASE field = "twitter" -> Ok("twitter")
      [] field \in {"ethereum", "eth"} -> Ok("ethereum")
      [] field = "nextid" -> Ok("nextid")
      [] field = "keybase" -> Ok("keybase")
      [] field = "github" -> Ok("github")
      [] field = "unknown" -> Ok("unknown")
      [] OTHER -> Err(Error_EnumParseError)

\* an equality that compares every field
Identity_eq_derived(self, other) == self = other

\* impl PartialEq for Identity
Identity_eq(self, other) ==
    self.uuid # None /\ other.uuid # None /\ self.uuid = other.uuid

\* The in-memory Identity values compared: with no uuid, or with one of
\* two uuids.
EqValues ==
    { [self EXCEPT !.uuid = uuid] :
        self \in IdentityInputs(1),
        uuid \in {None, Some(new_v4(1)), Some(new_v4(2))} }

\* The platform strings the requests carry.
PlatformFields == {"twitter", "eth", "aaa", ""}

\* The calls made: an accessor on a Target, self == other on two Identity
\* values, identity(platform, identity) and identities(platforms, identity).
Calls ==
    { [op |-> "eq", self |-> self, other |-> other] :
        self \in EqValues, other \in EqValues }
    \cup
    { [op |-> name, target |-> target] :
        name \in Accessors, target \in Targets }
    \cup { [op |-> q, platforms |-> fields, identity |-> QueryIdentity] :
             q \in {"IdentityQuery::identity"},
             fields \in SeqsUpTo(PlatformFields, 1) \ {<<>>} }
    \cup { [op |-> q, platforms |-> fields, identity |-> QueryIdentity] :
             q \in {"IdentityQuery::identities"},
             fields \in SeqsUpTo(PlatformFields, 2) }

\* platforms.into_iter().map(|field| field.parse()...).collect() of the
\* fields that parse.
RECURSIVE parsed(_)
parsed(fields) ==
    IF fields = <<>> THEN <<>>
    ELSE <<Platform_from_str(Head(fields))[2]>> \o parsed(Tail(fields))

unparsable(fields) ==
    \E i \in 1..Len(fields) : Platform_from_str(fields[i])[1] = "Err"

InitInput ==
    /\ CrawlIdle /\ HoldIdle /\ ResolveIdle /\ OutdatedIdle /\ FetchIdle
    /\ QueryIdle /\ AssetIdle
    /\ ipc = [p \in Procs |-> "idle"]
    /\ iself = [p \in Procs |-> None]
    /\ ifound = [p \in Procs |-> None]
    /\ idoc = [p \in Procs |-> None]
    /\ iret = [p \in Procs |-> None]
    /\ ireturned = [k \in IdentityKeys |-> {}]
    /\ ncalls = 0
    /\ now = 0
    /\ kpc = "called"
    /\ kop \in { Some(c) : c \in Calls }
    /\ identities \in
         IF kop[1].op \in Accessors \cup {"eq"} THEN { {} } ELSE InitialStores
    /\ kresult = None

\* An accessor of Target runs and returns.
TargetAccessor ==
    /\ kpc = "called"
    /\ kop[1].op \in Accessors
    /\ kresult' = Some(accessor(kop[1].op, kop[1].target))
    /\ kpc' = "returned"
    /\ UNCHANGED <<kop, assetVars>>
    /\ UNCHANGED <<crawlVars, identityVars, edgeVars, outdatedVars, fetchVars,
                   queryVars>>

\* Two Identity values are compared with ==.
IdentityEq ==
    /\ kpc = "called"
    /\ kop[1].op = "eq"
    /\ kresult' = Some(Identity_eq(kop[1].self, kop[1].other))
    /\ kpc' = "returned"
    /\ UNCHANGED <<kop, assetVars>>
    /\ UNCHANGED <<crawlVars, identityVars, edgeVars, outdatedVars, fetchVars,
                   queryVars>>

\* IdentityQuery::identity parses its platform: platform.parse()? returns
\* the error of an unparsable string; otherwise the request goes on to
\* its lookup.
IdentityQueryParse ==
    /\ kpc = "called"
    /\ kop[1].op = "IdentityQuery::identity"
    /\ LET platform == Platform_from_str(kop[1].platforms[1])
       IN  IF platform[1] = "Err"
           THEN /\ kresult' = Some(platform)
                /\ kpc' = "returned"
                /\ UNCHANGED <<qpc, qreq>>
           ELSE /\ qreq' = [ query |-> "identity",
                             platforms |-> <<platform[2]>>,
                             identity |-> kop[1].identity ]
                /\ qpc' = "called"
                /\ kpc' = "parsed"
                /\ UNCHANGED kresult
    /\ UNCHANGED <<kop, assetVars, qfound, qnext, qanswer, crawls>>
    /\ UNCHANGED <<crawlVars, identityVars, edgeVars, outdatedVars, fetchVars>>

\* IdentityQuery::identities parses its platforms: field.parse().expect(..)
\* panics on an unparsable string; otherwise the request goes on to its
\* lookup.
IdentitiesQueryParse ==
    /\ kpc = "called"
    /\ kop[1].op = "IdentityQuery::identities"
    /\ IF unparsable(kop[1].platforms)
       THEN /\ kpc' = "panicked"
            /\ UNCHANGED <<qpc, qreq>>
       ELSE /\ qreq' = [ query |-> "identities",
                         platforms |-> parsed(kop[1].platforms),
                         identity |-> kop[1].identity ]
            /\ qpc' = "called"
            /\ kpc' = "parsed"
    /\ UNCHANGED <<kop, kresult, assetVars, qfound, qnext, qanswer, crawls>>
    /\ UNCHANGED <<crawlVars, identityVars, edgeVars, outdatedVars, fetchVars>>

NextInput ==
    TargetAccessor \/ IdentityEq \/ IdentityQueryParse \/ IdentitiesQueryParse

SpecInput == InitInput /\ [][NextInput]_vars

\* ------------------------------------------------------------------------
\* IdentityRecord::neighbors
\* ------------------------------------------------------------------------
\* DataSource of the Proof edges.
DataSources == {"keybase", "nextid"}

\* The Identity vertices ID1..ID4 of the traversed graph, and the Contract.
ID(k) == id("Identities", [key |-> k])
VertexKeys == 1..4
ENS == id("Contracts", [key |-> 1])

\* The Proof edges the graph may hold: per (from, to) pair one edge of each
\* DataSource, every edge with a key of its own.
ProofPairs == << <<1, 2>>, <<1, 3>>, <<2, 4>>, <<2, 1>>, <<3, 4>> >>

ProofEdge(pair, source) ==
    [ key |-> 2 * pair - (IF source = "keybase" THEN 1 ELSE 0),
      from |-> ID(ProofPairs[pair][1]), to |-> ID(ProofPairs[pair][2]),
      uuid |-> new_v4(pair), source |-> source, record_id |-> None,
      updated_at |-> 0 ]

CandidateProofs ==
    { ProofEdge(pair, source) :
        pair \in 1..Len(ProofPairs), source \in DataSources }

\* The Proofs collections the traversal may meet.
ProofGraphs ==
    { g \in SUBSET CandidateProofs : Cardinality(g) <= MaxEdges }

\* The Hold of alice.eth in the ENS Contract by ID2.
HoldOfENS ==
    HoldEdge([ from |-> ID(2), to |-> ENS, id |-> "alice.eth",
               uuid |-> new_v4(0), source |-> "rss3", transaction |-> None,
               updated_at |-> 0 ], 1)

last(list) == list[Len(list)]

\* FOR vertex, edge, path IN 1..@depth ANY d GRAPH "identities_proofs_graph"
\* RETURN path: the paths that extend path by 1..depth edges of the graph,
\* taken in either direction; a path takes no edge twice.
RECURSIVE Traverse(_, _, _)
Traverse(edges, path, depth) ==
    IF depth = 0 THEN {}
    ELSE LET at == last(path.vertices)
             taken == { path.edges[i] : i \in 1..Len(path.edges) }
             next == { e \in edges \ taken : e.from = at \/ e.to = at }
         IN  UNION { LET longer ==
                             [ vertices |->
                                 Append(path.vertices,
                                        IF e.from = at THEN e.to ELSE e.from),
                               edges |-> Append(path.edges, e) ]
                     IN  {longer} \cup Traverse(edges, longer, depth - 1) :
                     e \in next }

\* the vertex a path starts from
first_vertex(path) == path.vertices[1]

\* path.vertices.last().unwrap()
last_vertex(path) == last(path.vertices)

\* sources_map[key]: last_edge.source of every path whose last vertex is
\* key, as the number of times each source was pushed.
sources_map(resp, key) ==
    [ source \in DataSources |->
        Cardinality({ p \in resp : /\ last_vertex(p) = key
                                   /\ last(p.edges).source = source }) ]

\* ss.to_owned().unique()
unique(pushed) ==
    [ source \in DOMAIN pushed |-> IF pushed[source] > 0 THEN 1 ELSE 0 ]

\* identity_map: the keys are the ids of the last vertices of the paths.
identity_map(resp) == { last_vertex(p) : p \in resp }

\* IdentityRecord::neighbors(pool, depth, _source): _source is not used.
\* The Vec returned is given as the set of its entries, and the sources of
\* an entry as the number of times each source occurs in it.
neighbors(edges, start, depth, _source) ==
    LET resp == Traverse(edges, [vertices |-> <<start>>, edges |-> <<>>], depth)
    IN  Ok({ [ identity |-> key,
               sources |-> unique(sources_map(resp, key)) ] :
             key \in identity_map(resp) })

InitNeighbors ==
    /\ CrawlIdle /\ IdentityIdle /\ ResolveIdle
    /\ OutdatedIdle /\ FetchIdle /\ QueryIdle
    /\ hpc = [p \in Procs |-> "idle"]
    /\ hself = [p \in Procs |-> None]
    /\ hfound = [p \in Procs |-> None]
    /\ hret = [p \in Procs |-> None]
    /\ proofs \in ProofGraphs
    /\ holds \in { {}, {HoldOfENS} }
    /\ contracts = {}
    /\ kpc = "called"
    /\ \E start \in VertexKeys, depth \in 1..MaxDepth,
          source \in {None} \cup { Some(ds) : ds \in DataSources } :
         kop = Some([ start |-> ID(start), depth |-> depth,
                      source |-> source ])
    /\ kresult = None

\* neighbors runs its query and returns.
Neighbors ==
    /\ kpc = "called"
    /\ kresult' =
         Some(neighbors(proofs, kop[1].start, kop[1].depth, kop[1].source))
    /\ kpc' = "returned"
    /\ UNCHANGED <<kop, assetVars>>
    /\ UNCHANGED <<crawlVars, identityVars, edgeVars, outdatedVars, fetchVars,
                   queryVars>>

NextNeighbors == Neighbors

SpecNeighbors == InitNeighbors /\ [][NextNeighbors]_vars

\* ------------------------------------------------------------------------
\* Crawl orchestrator properties
\* ------------------------------------------------------------------------

\* C1: fetch_all terminates: whatever the Fetchers return over a finite set
\* of Targets, cycles included, the crawl loop eventually finds the work
\* list empty and returns.
C1_FetchAllTerminates == <>(cpc = "returned")

\* The crawl returned after it had rediscovered and re-explored Targets.
C1_Witness ==
    /\ cpc = "returned"
    /\ Len(explored) > Cardinality(Targets)

\* C2: within one run of fetch_all no Target is passed to fetch_one more
\* than once.
C2_ExploredOnce ==
    \A i, j \in 1..Len(explored) : explored[i] = explored[j] => i = j

\* ------------------------------------------------------------------------
\* Identity upsert properties
\* ------------------------------------------------------------------------
OptionalFields == {"display_name", "profile_url", "avatar_url", "created_at"}

KeyOf(self) == <<self.platform, self.identity>>

\* The stored document a returned record stands for.
Stored(rec) == CHOOSE d \in identities : d.key = rec.key

\* The call of p has returned through the update branch.
Updated(p) == ipc[p] = "done" /\ ifound[p] # None

C4_OneIdentityPerKey ==
    \A d, e \in identities : KeyOf(d) = KeyOf(e) => d.key = e.key

\* A caller that had found nothing was refused the create, the pair having
\* been stored by the other caller in between.
C4_Witness ==
    \E p \in Procs :
        /\ ipc[p] = "refetch"
        /\ Cardinality({ d \in identities : KeyOf(d) = KeyOf(iself[p][1]) }) = 1

\* C5: sequential calls with the same (platform, identity) all return the
\* key and uuid the first call returned, and added_at keeps the value
\* stamped at creation.
C5_UpsertIdempotent ==
    /\ \A k \in IdentityKeys : Cardinality(ireturned[k]) <= 1
    /\ \A d \in identities : Returned(d) \in ireturned[KeyOf(d)]

\* A second call on a stored pair, proposing another uuid, after the clock
\* has moved on.
C5_Witness ==
    /\ Updated(1)
    /\ iself[1][1].uuid # None
    /\ iself[1][1].uuid # iret[1][1].uuid
    /\ iself[1][1].display_name # None
    /\ iret[1][1].added_at < now

\* C6: on the update path an absent incoming display_name, profile_url,
\* avatar_url or created_at leaves a present stored value as it was.
C6_AbsentNeverErases ==
    \A p \in {1} :
        Updated(p) =>
            \A f \in OptionalFields :
                (iself[p][1][f] = None /\ ifound[p][1][f] # None)
                => /\ iret[p][1][f] = ifound[p][1][f]
                   /\ Stored(iret[p][1])[f] = ifound[p][1][f]

\* C7: on the update path every present incoming display_name, profile_url,
\* avatar_url and created_at replaces the stored value, and updated_at is
\* stamped with the current time.
C7_PresentReplaces ==
    \A p \in {1} :
        Updated(p) =>
            /\ \A f \in OptionalFields :
                   iself[p][1][f] # None
                   => /\ iret[p][1][f] = iself[p][1][f]
                      /\ Stored(iret[p][1])[f] = iself[p][1][f]
            /\ iret[p][1].updated_at = now
            /\ Stored(iret[p][1]).updated_at = now

\* An update that replaced present stored values by other present values
\* and moved updated_at forward.
C7_Witness ==
    /\ Updated(1)
    /\ \A f \in OptionalFields :
           /\ ifound[1][1][f] # None
           /\ iself[1][1][f] # None
           /\ iself[1][1][f] # ifound[1][1][f]
    /\ ifound[1][1].updated_at < Stored(iret[1][1]).updated_at

\* ------------------------------------------------------------------------
\* Edge connect properties
\* ------------------------------------------------------------------------
HoldTriple(e) == <<e.from, e.to, e.id>>

\* C8: Hold.connect called again with the (from, to, id) of an earlier call
\* leaves exactly one stored Hold edge for that triple and returns the edge
\* the earlier call created.
C8_HoldConnectIdempotent ==
    /\ \A d, e \in holds : HoldTriple(d) = HoldTriple(e) => d.key = e.key
    /\ hpc[1] = "done" =>
          /\ hret[1][1] \in holds
          /\ HoldTriple(hret[1][1]) = HoldTriple(hself[1][1])
          /\ hfound[1] # None =>
                /\ hret[1] = hfound[1]
                /\ hret[1][1].uuid # hself[1][1].uuid

\* The second of two calls with one triple has returned, a second triple
\* being absent from the store.
C8_Witness ==
    /\ hpc[1] = "done"
    /\ hfound[1] # None
    /\ hself[1][1].source # hret[1][1].source
    /\ Cardinality(holds) = 1

\* C9: there is never more than one Hold edge per (from, to, id), also when
\* connects for one triple run concurrently.
C9_OneHoldPerTriple ==
    \A d, e \in holds : HoldTriple(d) = HoldTriple(e) => d.key = e.key

NameSystem(e) == <<e.name, e.system>>

\* The call of p found an edge of another (from, to) and has returned.
Transferred(p) ==
    /\ rpc[p] = "done"
    /\ rfound[p] # None
    /\ <<rfound[p][1].from, rfound[p][1].to>>
           # <<rself[p][1].from, rself[p][1].to>>

\* C10: Resolve.connect called with a (from, to) other than that of the
\* stored edge of its (name, system) deletes that edge and creates a new
\* one: afterwards exactly one edge exists for the (name, system), and it
\* connects the new pair.
C10_ResolveTransfer ==
    Transferred(1) =>
        /\ \A e \in resolves : e.key # rfound[1][1].key
        /\ { e \in resolves : NameSystem(e) = NameSystem(rself[1][1]) }
               = { rret[1][1] }
        /\ rret[1][1].from = rself[1][1].from
        /\ rret[1][1].to = rself[1][1].to
        /\ rret[1][1].uuid = rself[1][1].uuid

\* A name was moved to another (from, to) and the call has returned.
C10_Witness ==
    /\ Transferred(1)
    /\ Cardinality(resolves) = 1

\* C11: there is never more than one Resolve edge per (name, system), also
\* when connects for one (name, system) run concurrently and interleave
\* between their lookup, delete and link steps.
C11_OneResolvePerNameSystem ==
    \A d, e \in resolves : NameSystem(d) = NameSystem(e) => d.key = e.key

\* ------------------------------------------------------------------------
\* is_outdated properties
\* ------------------------------------------------------------------------
\* The ttl of each kind of record, in seconds.
C12_Ttl == [k \in Kinds |->
              CASE k = "Identity" -> 3600
                [] k = "Hold" -> 28800
                [] k = "Resolve" -> 86400]

\* C12: is_outdated is false one second before updated_at + ttl and at
\* updated_at + ttl itself and true one second after, the ttl being 1 hour
\* for an Identity, 8 hours for a Hold and 1 day for a Resolve; the result
\* of a kind depends on no other ttl than its own.
C12_OutdatedAtTtl ==
    opc = "returned" =>
        /\ onow = oupdated_at + C12_Ttl[okind] - 1 => oresult = FALSE
        /\ onow = oupdated_at + C12_Ttl[okind] => oresult = FALSE
        /\ onow = oupdated_at + C12_Ttl[okind] + 1 => oresult = TRUE
        /\ oresult = (onow > oupdated_at + C12_Ttl[okind])

\* A Hold asked exactly at its ttl, long after the ttl of an Identity and
\* before that of a Resolve, is not outdated.
C12_Witness ==
    /\ opc = "returned"
    /\ okind = "Hold"
    /\ oupdated_at > 0
    /\ onow = oupdated_at + 28800
    /\ oresult = FALSE

\* ------------------------------------------------------------------------
\* Resolve policy properties
\* ------------------------------------------------------------------------
\* The Target a request for one platform is about.
AskedTarget(platform) == <<"Identity", platform, qreq.identity>>

\* The records the store holds now for the platforms in ps.
HeldNow(ps) ==
    { d \in identities : d.identity = qreq.identity /\ d.platform \in ps }

\* updated_at is more than one hour before now.
Stale(r) == r.updated_at + 3600 < now

\* C13: identity() for a pair with no stored record answers only after the
\* fetch_all it called on that Target has returned, and answers what the
\* store holds for the pair after that crawl, nothing if it stored nothing.
C13_AbsentCrawlsThenRereads ==
    (qreq.query = "identity" /\ qpc = "answered" /\ qfound = {}) =>
        /\ Len(crawls) = 1
        /\ crawls[1] = [ target |-> AskedTarget(qreq.platforms[1]),
                         detached |-> FALSE, pc |-> "returned" ]
        /\ qanswer = HeldNow({qreq.platforms[1]})

\* The pair was absent, the crawl stored its record, and it is answered.
C13_Witness ==
    /\ qreq.query = "identity" /\ qpc = "answered" /\ qfound = {}
    /\ qanswer # {}
    /\ Cardinality(identities) = 2

\* C14: identity() for a pair whose stored record is outdated answers at
\* once the record it read, and starts one detached fetch_all for that
\* Target; the answer stays the same whatever the crawl does afterwards.
C14_OutdatedAnswersAndSpawns ==
    (qreq.query = "identity" /\ qpc # "called"
       /\ \E r \in qfound : Stale(r)) =>
        /\ qpc = "answered"
        /\ qanswer = qfound
        /\ Len(crawls) = 1
        /\ crawls[1].target = AskedTarget(qreq.platforms[1])
        /\ crawls[1].detached

\* The outdated record was answered and the detached crawl has since
\* written a newer one over it.
C14_Witness ==
    /\ qreq.query = "identity" /\ qpc = "answered"
    /\ \E r \in qfound : Stale(r)
    /\ crawls # <<>>
    /\ crawls[1].pc = "running"
    /\ qanswer # HeldNow({qreq.platforms[1]})

\* C15: identity() for a pair whose stored record is not outdated answers
\* that record, starts no crawl, so that no Fetcher runs, and no write to
\* the store is made.
C15_FreshAnswersFromStore ==
    (qreq.query = "identity" /\ qpc # "called"
       /\ \E r \in qfound : ~Stale(r)) =>
        /\ qpc = "answered"
        /\ qanswer = qfound
        /\ qanswer = HeldNow({qreq.platforms[1]})
        /\ crawls = <<>>
        /\ ncalls = 0

\* A record exactly one hour old was answered.
C15_Witness ==
    /\ qreq.query = "identity" /\ qpc = "answered"
    /\ \E r \in qfound : r.updated_at + 3600 = now /\ r.updated_at > 0
    /\ crawls = <<>>

\* The platforms the request names.
Asked == { qreq.platforms[i] : i \in 1..Len(qreq.platforms) }

\* C16: identities() has, when it answers, run a crawl to its end for every
\* requested platform without a stored record, also when another requested
\* platform had one, and has started a detached crawl for every stored
\* record that was outdated.
C16_EachPlatformResolved ==
    (qreq.query = "identities" /\ qpc = "answered") =>
        /\ \A p \in Asked :
             (\A r \in qfound : r.platform # p) =>
                 \E i \in 1..Len(crawls) :
                     /\ crawls[i].target = AskedTarget(p)
                     /\ ~crawls[i].detached
                     /\ crawls[i].pc = "returned"
        /\ \A r \in qfound :
             Stale(r) =>
                 \E i \in 1..Len(crawls) :
                     /\ crawls[i].target = AskedTarget(r.platform)
                     /\ crawls[i].detached

\* ------------------------------------------------------------------------
\* Fetcher failure properties
\* ------------------------------------------------------------------------
\* The Targets of the results i.. that are Ok, in the order of the Fetchers.
RECURSIVE Succeeded(_, _)
Succeeded(results, i) ==
    IF i > Len(results) THEN <<>>
    ELSE (IF results[i][1] = "Ok" THEN results[i][2] ELSE <<>>)
         \o Succeeded(results, i + 1)

\* The work list after the Targets of list that are not in done were pushed
\* one by one.
RECURSIVE Pushed(_, _, _)
Pushed(stack, done, list) ==
    IF list = <<>> THEN stack
    ELSE Pushed(IF \E j \in 1..Len(done) : done[j] = Head(list)
                THEN stack ELSE stack \o <<Head(list)>>,
                done, Tail(list))

\* C17: whichever Fetchers fail for a Target, the round of the crawl ends
\* well: the Target is recorded as processed, the Targets of the Fetchers
\* that succeeded, and no others, are pushed in Fetcher order on what was
\* left of the work list, and fetch_all keeps running.
C17_FailuresNeverHalt ==
    [][ (cpc = "fetching" /\ joined' # None) =>
          LET target == up_next[Len(up_next)]
              rest == SubSeq(up_next, 1, Len(up_next) - 1)
          IN  /\ cpc' = "running"
              /\ explored' = explored \o <<target>>
              /\ processed' = processed \o <<target>>
              /\ up_next' = Pushed(rest, processed', Succeeded(joined'[1], 1))
      ]_vars

\* A round late in the crawl in which some Fetchers failed and another
\* returned Targets, with work left before and after it.
C17_Witness ==
    /\ cpc = "running"
    /\ joined # None
    /\ Len(processed) >= 2
    /\ Cardinality({ i \in 1..Len(joined[1]) : joined[1][i][1] = "Err" }) >= 2
    /\ Succeeded(joined[1], 1) # <<>>
    /\ Len(up_next) >= 2

\* A Fetcher of the latest fetch_one returned a store error.
StoreFatalRaised ==
    /\ joined # None
    /\ \E i \in 1..Len(joined[1]) :
         joined[1][i] = <<"Err", <<<<"ArangoDBError">>>>>>

\* C19: fetch_all stops and returns an error to its caller exactly when a
\* store-fatal error was raised by a Fetcher's write while a Target was
\* processed.
C19_StoreFatalStopsCrawl ==
    /\ StoreFatalRaised => cpc = "failed"
    /\ cpc = "failed" => StoreFatalRaised

\* C18: the fetch of Keybase, Rss3 and Knn3 returns an empty list, not an
\* error, when it fails because of the upstream: network failure,
\* non-success response, empty or malformed result.
C18_UpstreamFailureIsEmpty ==
    (fpc = "returned"
       /\ fupstream.response \in
            {"network_failure", "non_success", "malformed", "empty"})
    => fresult = <<"Ok", <<>>>>

\* Every Target of the list is x, and there is at least one.
Only(list, x) ==
    /\ list # <<>>
    /\ \A i \in 1..Len(list) : list[i] = x

\* C20: when exploring a discovers only b and exploring b discovers only a,
\* fetch_all seeded with a returns having explored a once and then b once.
C20_CycleVisitsEachOnce ==
    \A a, b \in Targets :
        ( /\ a # b
          /\ cpc = "returned"
          /\ explored[1] = a
          /\ Only(discovers[a], b)
          /\ Only(discovers[b], a) )
        => explored = <<a, b>>


\* ------------------------------------------------------------------------
\* Crawl scenario and store properties
\* ------------------------------------------------------------------------

RECURSIVE EndOf(_, _)
EndOf(es, v) ==
    IF es = <<>> THEN Some(v)
    ELSE IF Head(es).from = v THEN EndOf(Tail(es), Head(es).to)
    ELSE IF Head(es).to = v THEN EndOf(Tail(es), Head(es).from)
    ELSE None

\* The paths of 1..depth edges from v to w, no edge taken twice.
PathsTo(edges, v, w, depth) ==
    { es \in SeqsUpTo(edges, depth) :
        /\ es # <<>>
        /\ \A i, j \in 1..Len(es) : i # j => es[i] # es[j]
        /\ EndOf(es, v) = Some(w) }

\* The vertices of the store.
StoredVertices == { ID(k) : k \in VertexKeys } \cup {ENS}

\* The entries neighbors returned.
Entries == kresult[1][2]

\* C22: the neighbor traversal follows Hold edges as well as Proof edges:
\* in twitter/alice --Proof--> ethereum/0xabc --Hold--> Contract(ENS),
\* neighbors(alice, 1) returns the ethereum identity, and with a depth of 2
\* or more it returns the ethereum identity and the ENS Contract.
C22_HoldEdgesFollowed ==
    ( /\ kpc = "returned"
      /\ proofs = {ProofEdge(1, "nextid")}
      /\ holds = {HoldOfENS}
      /\ kop[1].start = ID(1) )
    => /\ kresult[1][1] = "Ok"
       /\ { n.identity : n \in Entries } =
            IF kop[1].depth = 1 THEN {ID(2)} ELSE {ID(2), ENS}

\* C23: neighbors(v, depth) with depth >= 1 returns exactly once every
\* vertex that a path of 1..depth edges, taken in either direction, leads
\* to from v, and no other vertex.
C23_ReachableExactlyOnce ==
    kpc = "returned" =>
        /\ kresult[1][1] = "Ok"
        /\ \A n \in Entries : n.identity \in StoredVertices
        /\ \A w \in StoredVertices :
             Cardinality({ n \in Entries : n.identity = w }) =
               IF PathsTo(proofs, kop[1].start, w, kop[1].depth) # {}
               THEN 1 ELSE 0

\* ID2 <- ID1 -> ID3 and ID2 -> ID4: neighbors(ID1, 2) has 3 entries.
C23_Witness ==
    /\ kpc = "returned"
    /\ { <<e.from, e.to>> : e \in proofs } =
         { <<ID(1), ID(2)>>, <<ID(1), ID(3)>>, <<ID(2), ID(4)>> }
    /\ kop[1].start = ID(1)
    /\ kop[1].depth = 2
    /\ Cardinality(Entries) = 3

\* C24: with a source filter, a vertex is returned only if a path within
\* the depth bound whose every edge was asserted by that source leads to
\* it.
C24_SourceFilterRestricts ==
    (kpc = "returned" /\ kop[1].source # None) =>
        \A n \in Entries :
          \E es \in PathsTo(proofs, kop[1].start, n.identity, kop[1].depth) :
            \A i \in 1..Len(es) : es[i].source = kop[1].source[1]

\* C25: every vertex returned is annotated with the sources, each once, of
\* all the edges of every path within the depth bound that leads to it.
C25_SourcesOfAllPaths ==
    kpc = "returned" =>
        \A n \in Entries :
          LET along ==
                  UNION { { es[i].source : i \in 1..Len(es) } :
                          es \in PathsTo(proofs, kop[1].start, n.identity,
                                         kop[1].depth) }
          IN  \A source \in DataSources :
                n.sources[source] = IF source \in along THEN 1 ELSE 0

\* ------------------------------------------------------------------------
\* Deletion
\* ------------------------------------------------------------------------
\* The documents of a collection stay in it over a step.
Kept(docs, docs_after) ==
    \A d \in docs : \E e \in docs_after : e.key = d.key

\* C26: whatever the store operations and however they interleave, no
\* Identity, Contract, Proof or Hold is ever deleted, and a Resolve edge
\* leaves the store only in a step of a Resolve::connect that asserts the
\* edge's (name, system) on another (from, to) pair.
C26_DeletedOnlyOnTransfer ==
    [][ /\ Kept(identities, identities')
        /\ Kept(contracts, contracts')
        /\ Kept(proofs, proofs')
        /\ Kept(holds, holds')
        /\ \A e \in resolves :
             (\A f \in resolves' : f.key # e.key) =>
               \E p \in Procs :
                 /\ rpc[p] = "delete"
                 /\ rpc'[p] = "link"
                 /\ rself[p][1].name = e.name
                 /\ rself[p][1].system = e.system
                 /\ <<rself[p][1].from, rself[p][1].to>> # <<e.from, e.to>>
      ]_vars

\* A transfer has deleted the only edge and has not linked the new one yet.
C26_Witness ==
    /\ \E p \in Procs : rpc[p] = "link" /\ rfound[p] # None
    /\ resolves = {}
    /\ rkeys > 0

\* ------------------------------------------------------------------------
\* Bad input
\* ------------------------------------------------------------------------
ClientSide(result) ==
    /\ result[1] = "Err"
    /\ http_status(result[2][1]) \in 400..499

\* C27: an accessor of Target called on the other variant returns an error
\* that maps to a 4xx status, never a value; identity and identities, given
\* a platform string that does not parse, return an error that maps to a
\* 4xx status, with no panic and no crawl started.
C27_BadInputIsClientSide ==
    (kpc # "called" /\ kop # None /\ kop[1].op # "eq") =>
        /\ ( /\ kop[1].op \in {"platform", "identity"}
             /\ kop[1].target[1] = "NFT" )
           => (kpc = "returned" /\ ClientSide(kresult[1]))
        /\ ( /\ kop[1].op \in {"nft_chain", "nft_category", "nft_id"}
             /\ kop[1].target[1] = "Identity" )
           => (kpc = "returned" /\ ClientSide(kresult[1]))
        /\ ( /\ kop[1].op \notin Accessors
             /\ unparsable(kop[1].platforms) )
           => /\ kpc = "returned"
              /\ ClientSide(kresult[1])
              /\ crawls = <<>>

\* C28: two in-memory Identity values with different uuids are never
\* equal, whatever their other fields, and two values with the same uuid
\* are equal, whatever their other fields.
C28_EqualByUuidOnly ==
    (kpc = "returned" /\ kop[1].op = "eq") =>
        LET self == kop[1].self
            other == kop[1].other
        IN  /\ self.uuid # other.uuid => kresult[1] = FALSE
            /\ (self.uuid # None /\ self.uuid = other.uuid)
                 => kresult[1] = TRUE

\* Equal with one uuid and no other field in common.
C28_Witness ==
    /\ kpc = "returned"
    /\ kop[1].op = "eq"
    /\ kresult[1] = TRUE
    /\ kop[1].self.platform # kop[1].other.platform
    /\ kop[1].self.identity # kop[1].other.identity
    /\ kop[1].self.display_name # kop[1].other.display_name
    /\ kop[1].self.profile_url # kop[1].other.profile_url

\* ------------------------------------------------------------------------
\* Fan-out and work list order
\* ------------------------------------------------------------------------
\* C29: every Fetcher is invoked exactly once on the Target popped; while
\* an invocation is still running the Target is not recorded as processed
\* and nothing is pushed; when all have completed the Target is recorded
\* and the discoveries of all of them, those that finished first included,
\* are pushed in the order of the Fetchers.
C29_AllFetchersJoined ==
    [][ (cpc = "fetching" /\ joined # None) =>
          LET target == up_next[Len(up_next)]
              rest == SubSeq(up_next, 1, Len(up_next) - 1)
          IN  /\ \A i \in 1..Len(Fetchers) : kop[1][i] = 1
              /\ (\E i \in 1..Len(Fetchers) : joined[1][i] = None)
                   => /\ processed' = processed
                      /\ up_next' = up_next
                      /\ \A i \in 1..Len(Fetchers) :
                           joined[1][i] # None => joined'[1][i] = joined[1][i]
              /\ processed' # processed
                   => /\ \A i \in 1..Len(Fetchers) : joined[1][i] # None
                      /\ processed' = Append(processed, target)
                      /\ up_next' =
                           Pushed(rest, processed',
                                  Succeeded([ i \in 1..Len(Fetchers) |->
                                                joined[1][i][1] ], 1))
      ]_vars

\* A Fetcher later in the list has returned a Target while one before it
\* is still running, and the Target is in neither list yet.
C29_Witness ==
    /\ cpc = "fetching"
    /\ joined # None
    /\ \E i, j \in 1..Len(Fetchers) :
         /\ i < j
         /\ joined[1][i] = None
         /\ joined[1][j] # None
         /\ joined[1][j][1][1] = "Ok"
         /\ Len(joined[1][j][1][2]) > 0
         /\ ~contains(up_next, joined[1][j][1][2][1])
         /\ processed = <<>>

\* C30: the work list is a stack.  The Target a round explores is the last
\* of the work list, every Target that was waiting below it keeps its
\* place, and what the round pushes lies above them all in the order of
\* the pushes; so the Target pushed last is explored next, and a Target that
\* was waiting is explored only when everything pushed after it is gone.
C30_WorkListIsStack ==
    [][ explored' # explored =>
          LET waiting == Len(up_next) - 1
          IN  /\ explored' = Append(explored, up_next[Len(up_next)])
              /\ Len(up_next') >= waiting
              /\ \A k \in 1..waiting : up_next'[k] = up_next[k]
              /\ \A k \in (waiting + 1)..Len(up_next') :
                   /\ ~contains(processed', up_next'[k])
                   /\ \E res \in fetched_lists[up_next[Len(up_next)]] :
                        /\ res[1] = "Ok"
                        /\ contains(res[2], up_next'[k])
      ]_vars

\* The first round pushed two Targets; the second explored the one pushed
\* last and pushed a Target above the one left waiting.
C30_Witness ==
    /\ cpc = "running"
    /\ Len(explored) = 2
    /\ explored[1] # explored[2]
    /\ processed = explored
    /\ Len(up_next) = 2
    /\ \A k \in 1..2 : ~contains(explored, up_next[k])

\* ------------------------------------------------------------------------
\* What a round pushes
\* ------------------------------------------------------------------------
\* How many times x is in list.
RECURSIVE Count(_, _)
Count(list, x) ==
    IF list = <<>> THEN 0
    ELSE (IF Head(list) = x THEN 1 ELSE 0) + Count(Tail(list), x)

\* The Targets of a list.
Range(list) == { list[k] : k \in 1..Len(list) }

\* C31: in a round that explores t, t is in processed when the fetched
\* Targets are looked at, and a fetched Target d is pushed each time it was
\* fetched if it is not in processed, and not at all if it is: t itself
\* and every Target equal to a processed one are discarded.
C31_PushedIffNotProcessed ==
    [][ (cpc = "fetching" /\ joined' # None) =>
          LET t == up_next[Len(up_next)]
              fetched == Succeeded(joined'[1], 1)
              new == SubSeq(up_next', Len(up_next), Len(up_next'))
          IN  /\ t \in Range(processed')
              /\ \A d \in Targets :
                   Count(new, d) =
                     IF d \in Range(processed') THEN 0
                     ELSE Count(fetched, d)
      ]_vars

\* The second round of a crawl fetched the Target it explored and one not
\* yet processed: only the second was pushed.
C31_Witness ==
    /\ cpc = "running"
    /\ joined # None
    /\ Len(explored) = 2
    /\ explored[1] # explored[2]
    /\ explored[2] \in Range(Succeeded(joined[1], 1))
    /\ \E d \in Range(Succeeded(joined[1], 1)) \ Range(processed) :
         up_next[Len(up_next)] = d
    /\ explored[2] \notin Range(up_next)

\* C32: when fetch_all returns, the seed is in processed, every Target
\* fetched for a processed Target is in processed, and every Target
\* explored after the seed was fetched for a Target explored before it.
C32_ProcessedIsClosed ==
    \A seed \in Targets :
      (up_next = <<seed>> /\ explored = <<>>) =>
        [](cpc = "returned" =>
             /\ seed \in Range(processed)
             /\ explored[1] = seed
             /\ Range(processed) = Range(explored)
             /\ \A t \in Range(processed) :
                  Range(discovers[t]) \subseteq Range(processed)
             /\ \A k \in 2..Len(explored) :
                  \E j \in 1..Len(explored) :
                    /\ j < k
                    /\ explored[k] \in Range(discovers[explored[j]]))

\* fetch_all has returned from a crawl that reached every Target, the
\* seed being fetched again on the way.
C32_Witness ==
    /\ cpc = "returned"
    /\ Range(processed) = Targets
    /\ \E t \in Targets \ {explored[1]} :
         explored[1] \in Range(discovers[t])

\* ------------------------------------------------------------------------
\* Concurrent updates of a stored Identity
\* ------------------------------------------------------------------------
\* The optional fields the update branch keeps when the incoming value is
\* absent.
MergedFields == {"display_name", "created_at"}

\* C33: when a caller of create_or_update whose incoming display_name or
\* created_at is absent saves, the value the store holds for that field at
\* that moment, written by the other caller or not, is still stored after
\* the save.
C33_ConcurrentAbsentNeverErases ==
    [][ \A p \in Procs :
          (ipc[p] = "save" /\ ipc'[p] = "done") =>
            LET before == CHOOSE d \in identities : d.key = idoc[p][1].key
                after == CHOOSE d \in identities' : d.key = idoc[p][1].key
            IN  \A f \in MergedFields :
                  (iself[p][1][f] = None /\ before[f] # None)
                    => after[f] = before[f]
      ]_vars

\* ------------------------------------------------------------------------
\* Resolve edges re-asserted and interrupted
\* ------------------------------------------------------------------------
\* The call of Resolve::connect that starts in this step is the call of p.
ResolveCalled(p) ==
    /\ ncalls' = ncalls + 1
    /\ rself'[p] # None
    /\ rself'[p][1].uuid = <<"v4", ncalls'>>

\* C34: a Resolve::connect called for a (name, system) whose one stored
\* edge connects the (from, to) it is called with returns at once with
\* that edge, and the collection is as it was: nothing deleted, nothing
\* created, the edge unchanged.
C34_SamePairKept ==
    [][ \A p \in Procs :
          ResolveCalled(p) =>
            LET self == rself'[p][1]
                stored == { e \in resolves :
                              e.name = self.name /\ e.system = self.system }
            IN  \A e \in stored :
                  (stored = {e} /\ e.from = self.from /\ e.to = self.to)
                    => /\ rpc'[p] = "done"
                       /\ rret'[p] = Some(e)
                       /\ resolves' = resolves
                       /\ rkeys' = rkeys
      ]_vars

\* A connect has returned the stored edge of its pair, which is not the
\* edge value it was called on.
C34_Witness ==
    \E p \in Procs :
        /\ rpc[p] = "done"
        /\ rfound[p] # None
        /\ rret[p] = rfound[p]
        /\ rret[p][1] \in resolves
        /\ rret[p][1].from = rself[p][1].from
        /\ rret[p][1].to = rself[p][1].to
        /\ rret[p][1].uuid # rself[p][1].uuid
        /\ rret[p][1].updated_at # rself[p][1].updated_at
        /\ Cardinality(resolves) = 1

\* ------------------------------------------------------------------------
\* Failures of the creation step
\* ------------------------------------------------------------------------
\* The call of p leaves its create with an error: no Identity is added.
CreateErrorPropagates(p) ==
    (ipc[p] = "create" /\ ipc'[p] = "failed")
      => /\ identities' = identities
         /\ iret'[p] = None

\* The call of p, refused by the unique index, returns the record stored
\* under its (platform, identity).
ConflictReturnsStored(p) ==
    (ipc[p] = "refetch" /\ ipc'[p] = "done")
      => /\ iret'[p] # None
         /\ iret'[p][1] \in identities
         /\ KeyOf(iret'[p][1]) = KeyOf(iself[p][1])
         /\ identities' = identities

EdgesOfCall(edges, p) ==
    { e \in edges : NameSystem(e) = NameSystem(rself[p][1]) }

\* C36: a Resolve::connect that fails in its link after it deleted the old
\* edge leaves no edge for the (name, system); the next connect with the
\* same arguments finds none and goes on to link, and a link that returns
\* leaves exactly one edge for the (name, system), on the pair of the call.
C36_TransferSelfHeals ==
    [][ \A p \in {1} :
          /\ (rpc[p] = "link" /\ rpc'[p] = "failed")
               => EdgesOfCall(resolves', p) = {}
          /\ ( /\ rpc[p] = "failed"
               /\ ResolveCalled(p)
               /\ EdgesOfCall(resolves, p) = {}
               /\ NameSystem(rself'[p][1]) = NameSystem(rself[p][1])
               /\ rself'[p][1].from = rself[p][1].from
               /\ rself'[p][1].to = rself[p][1].to )
               => /\ rfound'[p] = None
                  /\ rpc'[p] = "link"
                  /\ resolves' = resolves
          /\ (rpc[p] = "link" /\ rpc'[p] = "done")
               => /\ EdgesOfCall(resolves', p) = { rret'[p][1] }
                  /\ rret'[p][1].from = rself[p][1].from
                  /\ rret'[p][1].to = rself[p][1].to
      ]_vars

\* The edge stored at the start was deleted by a connect that failed in its
\* link; the next connect found no edge for the name and linked it to the
\* new pair.
C36_Witness ==
    /\ ncalls = 2
    /\ rpc[1] = "done"
    /\ rfound[1] = None
    /\ \E e \in resolves :
         /\ resolves = {e}
         /\ e.key = 2
         /\ NameSystem(e) = <<"alice.eth", "ENS">>
         /\ <<e.from, e.to>> # <<"Contracts/1", "Identities/1">>
         /\ rret[1] = Some(e)

\* ------------------------------------------------------------------------
\* Two requests for one identity
\* ------------------------------------------------------------------------
\* The vertices stored for the pair the requests ask for.
AskedVertices ==
    { d \in identities :
        d.platform = "twitter" /\ d.identity = QueryIdentity }

\* Both requests found no record of the pair.
BothAbsent == \A p \in Procs : kop[p] # None

\* Both requests found no record, each called a fetch_all of its own on
\* the Target and goes on as soon as that crawl has returned, whatever the
\* other does.
OwnCrawls ==
    BothAbsent =>
        /\ Len(crawls) = 2
        /\ kop[1] # kop[2]
        /\ \A p \in Procs :
             /\ crawls[kop[p][1]].target
                  = TargetIdentity("twitter", QueryIdentity)
             /\ ~crawls[kop[p][1]].detached
             /\ kpc[p] = "answered" => crawls[kop[p][1]].pc = "returned"
             /\ (kpc[p] = "awaiting" /\ crawls[kop[p][1]].pc = "returned")
                  => ENABLED RequestReread(p)

\* Both requests have answered.
BothFinished == \A p \in Procs : kpc[p] = "answered"

\* C37 as stated: two requests that both find no record of the pair each
\* run a crawl of their own, and when both have finished exactly one vertex
\* is stored for the pair.
C37_TwoCrawlsOneVertex ==
    /\ OwnCrawls
    /\ (BothAbsent /\ BothFinished) => Cardinality(AskedVertices) = 1

\* C37 amended: two requests that both find no record of the pair each run
\* a crawl of their own, at most one vertex is ever stored for the pair,
\* and when both have finished exactly one is stored if a Fetcher of
\* either crawl upserted the Identity, none otherwise.
C37_TwoCrawlsAtMostOneVertex ==
    /\ OwnCrawls
    /\ Cardinality(AskedVertices) <= 1
    /\ (BothAbsent /\ BothFinished) =>
         /\ (\E p \in Procs : iself[p] # None)
              <=> Cardinality(AskedVertices) = 1
         /\ \A p \in Procs :
              /\ \A r \in AsSet(kresult[p]) \cup AsSet(iret[p]) :
                   r.key \in { d.key : d \in AskedVertices }

\* Both requests found no record and both crawls upserted the Identity, one
\* of them refused by the unique index; both requests answer the one
\* vertex.
C37_Witness ==
    /\ BothAbsent /\ BothFinished
    /\ \A p \in Procs : ipc[p] = "done" /\ ifound[p] = None
    /\ Cardinality(AskedVertices) = 1
    /\ \A p \in Procs : kresult[p] # None

\* ------------------------------------------------------------------------
\* Hold edges after their creation
\* ------------------------------------------------------------------------
\* C38: a Hold::connect that finds the edge of its (from, to, id) returns
\* the stored edge; every stored Hold edge stays as it was linked, its
\* updated_at, source and transaction included, so an edge that is outdated
\* is outdated after every later step.
C38_HoldNeverRefreshed ==
    [][ /\ \A e \in holds :
             /\ e \in holds'
             /\ Hold_is_outdated(e.updated_at, now)
                  => \A d \in holds' :
                       d.key = e.key => Hold_is_outdated(d.updated_at, now')
        /\ \A p \in {1} :
             (hpc'[p] = "done" /\ hfound'[p] # None /\ hfound'[p] # hfound[p])
               => /\ hret'[p] = hfound'[p]
                  /\ hret'[p][1] \in holds
                  /\ holds' = holds
      ]_vars

\* The edge stored at the start is outdated and was re-asserted by a
\* connect called on a value with a newer updated_at, another source and
\* another transaction: the edge returned and stored is the old one.
C38_Witness ==
    /\ hpc[1] = "done"
    /\ hfound[1] # None
    /\ hret[1] = hfound[1]
    /\ hret[1][1] \in holds
    /\ hret[1][1].key = 1
    /\ Hold_is_outdated(hret[1][1].updated_at, now)
    /\ ~Hold_is_outdated(hself[1][1].updated_at, now)
    /\ hself[1][1].source # hret[1][1].source
    /\ hself[1][1].transaction # hret[1][1].transaction

\* ------------------------------------------------------------------------
\* updated_at of a stored Identity
\* ------------------------------------------------------------------------
\* C39: whatever step a create_or_update call takes, the updated_at stored
\* for an Identity afterwards is not before the one stored until then.
C39_UpdatedAtNeverDecreases ==
    [][ \A d \in identities : \A e \in identities' :
          e.key = d.key => e.updated_at >= d.updated_at
      ]_vars

\* ------------------------------------------------------------------------
\* The loop of the Keybase Fetcher over the proofs of one person, inside
\* one round of fetch_all.

\* str::to_lowercase on the nametags of the answers below.
to_lowercase(s) == IF s = "Bob" THEN "bob" ELSE s

\* The entries of proofs_summary.all the upstream may answer with.
KeybaseProofs ==
    { [ proof_type |-> ty, nametag |-> name, proof_id |-> "1" ] :
        ty \in {"twitter", "github", "dns"}, name \in {"alice", "Bob"} }

KeybaseUser == [ id |-> "uid1", username |-> "alice_kb" ]

\* The from Identity the loop builds for every proof.
KeybaseFrom(n) ==
    [ uuid |-> Some(new_v4(n)), platform |-> "keybase",
      identity |-> KeybaseUser.id, created_at |-> None,
      display_name |-> Some(KeybaseUser.username), avatar_url |-> None,
      profile_url |-> None ]

\* The to Identity the loop builds for a proof of a known Platform.
KeybaseTo(p, n) ==
    [ uuid |-> Some(new_v4(n)),
      platform |-> Platform_from_str(p.proof_type)[2],
      identity |-> to_lowercase(p.nametag), created_at |-> None,
      display_name |-> Some(p.nametag), avatar_url |-> None,
      profile_url |-> None ]

\* The Target the loop pushes for a proof once its records are stored.
KeybaseTarget(p) ==
    TargetIdentity(Platform_from_str(p.proof_type)[2], p.nametag)

\* create_identity_to_identity_record(db, from, to, pf) as far as its
\* writes went: from.create_or_update, to.create_or_update, pf.connect.
\* written is the number of writes that succeeded.
create_identity_to_identity_record(docs, edges, p, n, t, written) ==
    LET f == create_or_update_alone(docs, KeybaseFrom(n + 1), n + 1, t)
        g == create_or_update_alone(f.docs, KeybaseTo(p, n + 2), n + 2, t)
        pf == [ from |-> id("Identities", f.record),
                to |-> id("Identities", g.record), uuid |-> new_v4(n + 3),
                source |-> "keybase", record_id |-> Some(p.proof_id),
                updated_at |-> t ]
    IN  [ docs |-> IF written = 0 THEN docs
                   ELSE IF written = 1 THEN f.docs ELSE g.docs,
          edges |-> IF written = 3 THEN Proof_connect(edges, pf) ELSE edges ]

keybaseFrame ==
    <<joined, discovers, callerVars, holds, hpc, hself, hfound, hret,
      resolveVars, outdatedVars, fetchVars, queryVars, contracts>>

\* fetch_one(&target) is called on the Target fetch_all was called with;
\* Keybase has the person and the store connection and enters its loop.
KeybaseLoopEntered ==
    /\ cpc = "running"
    /\ Len(up_next) > 0
    /\ explored = <<>>
    /\ Keybase_can_fetch(up_next[Len(up_next)])
    /\ cpc' = "fetching"
    /\ kpc' = "looping"
    /\ \E all \in SeqsUpTo(KeybaseProofs, MaxFetched) :
         kop' = Some([ target |-> up_next[Len(up_next)], all |-> all,
                       next |-> 1, next_targets |-> <<>> ])
    /\ kresult' = None
    /\ UNCHANGED <<up_next, processed, explored>>
    /\ UNCHANGED <<clockVars, identities, proofs, keybaseFrame>>

\* A proof whose proof_type names no Platform: continue.
KeybaseProofSkipped ==
    /\ kpc = "looping"
    /\ kop[1].next <= Len(kop[1].all)
    /\ Platform_from_str(kop[1].all[kop[1].next].proof_type)[1] = "Err"
    /\ kop' = Some([ kop[1] EXCEPT !.next = @ + 1 ])
    /\ UNCHANGED <<kpc, kresult>>
    /\ UNCHANGED <<cpc, up_next, processed, explored>>
    /\ UNCHANGED <<clockVars, identities, proofs, keybaseFrame>>

\* A proof of a known Platform is stored and its Target pushed to
\* next_targets.
KeybaseProofStored ==
    /\ kpc = "looping"
    /\ kop[1].next <= Len(kop[1].all)
    /\ LET p == kop[1].all[kop[1].next]
       IN  /\ Platform_from_str(p.proof_type)[1] = "Ok"
           /\ \E t \in ClockReads :
                LET w == create_identity_to_identity_record(
                             identities, proofs, p, ncalls, t, 3)
                IN  /\ identities' = w.docs
                    /\ proofs' = w.edges
                    /\ now' = t
           /\ kop' = Some([ kop[1] EXCEPT
                              !.next = @ + 1,
                              !.next_targets = Append(@, KeybaseTarget(p)) ])
    /\ ncalls' = ncalls + 3
    /\ UNCHANGED <<kpc, kresult>>
    /\ UNCHANGED <<cpc, up_next, processed, explored>>
    /\ UNCHANGED keybaseFrame

\* One of the three writes of create_identity_to_identity_record fails:
\* the ? operator returns the error and next_targets is dropped.
KeybaseStoreFails ==
    /\ kpc = "looping"
    /\ kop[1].next <= Len(kop[1].all)
    /\ LET p == kop[1].all[kop[1].next]
       IN  /\ Platform_from_str(p.proof_type)[1] = "Ok"
           /\ \E t \in ClockReads, written \in 0..2 :
                LET w == create_identity_to_identity_record(
                             identities, proofs, p, ncalls, t, written)
                IN  /\ identities' = w.docs
                    /\ proofs' = w.edges
                    /\ now' = t
    /\ ncalls' = ncalls + 3
    /\ kpc' = "returned"
    /\ kresult' = Some(Err(Error_ArangoDBError))
    /\ UNCHANGED kop
    /\ UNCHANGED <<cpc, up_next, processed, explored>>
    /\ UNCHANGED keybaseFrame

\* The loop is over: Ok(next_targets).
KeybaseLoopEnds ==
    /\ kpc = "looping"
    /\ kop[1].next > Len(kop[1].all)
    /\ kpc' = "returned"
    /\ kresult' = Some(Ok(kop[1].next_targets))
    /\ UNCHANGED kop
    /\ UNCHANGED <<cpc, up_next, processed, explored>>
    /\ UNCHANGED <<clockVars, identities, proofs, keybaseFrame>>

\* What the six fetches of the fetch_one return: Keybase with res, the
\* others have nothing to fetch.
KeybaseResults(res) ==
    [ i \in 1..Len(Fetchers) |->
        IF Fetchers[i] = "Keybase" THEN res ELSE Ok(<<>>) ]

\* The join_all of the fetch_one completes and the rest of the loop body
\* of fetch_all runs.
KeybaseJoined ==
    /\ cpc = "fetching"
    /\ kpc = "returned"
    /\ FetchAllStep(kop[1].target, fetch_one(KeybaseResults(kresult[1])))
    /\ kpc' = "joined"
    /\ UNCHANGED <<kop, kresult>>
    /\ UNCHANGED <<clockVars, identities, proofs, keybaseFrame>>

NextKeybase ==
    \/ KeybaseLoopEntered
    \/ KeybaseProofSkipped
    \/ KeybaseProofStored
    \/ KeybaseStoreFails
    \/ KeybaseLoopEnds
    \/ KeybaseJoined
    \/ FetchAllReturn

SpecKeybase == InitScenario /\ [][NextKeybase]_vars

\* The proof has its to vertex and its edge in the store.
ProofPersisted(p) ==
    /\ Platform_from_str(p.proof_type)[1] = "Ok"
    /\ \E d \in identities, e \in proofs :
         /\ d.platform = Platform_from_str(p.proof_type)[2]
         /\ d.identity = to_lowercase(p.nametag)
         /\ e.to = id("Identities", d)
         /\ e.source = "keybase"

\* C40: once the round of fetch_all that ran the Keybase loop is over,
\* the Target of every proof whose vertices and edge the loop stored is
\* waiting in the work list or is processed, whether the loop ended or
\* left on a store error.
C40_PersistedTargetsInFrontier ==
    kpc = "joined" =>
      \A k \in 1..Len(kop[1].all) :
        ProofPersisted(kop[1].all[k]) =>
          KeybaseTarget(kop[1].all[k])
            \in Range(up_next) \cup Range(processed)

====
